---- MODULE Spec2Model ----
(***************************************************************************)
(* Model of the executor platform's routing layer                          *)
(* (k8s/controllers/load_balancer.py): the per-pool CircuitBreaker and the *)
(* GlobalLoadBalancer with its session affinities, its durable store and   *)
(* the suspension points of its coroutines.                                *)
(* And of the session manager (executor/session.py): the registry of       *)
(* sandbox sessions, its lock, its callers and its cleanup thread.         *)
(* And of one sandbox (executor/sandbox.py) with the container it owns,    *)
(* and the path checks of the file operations (executor/filesystem.py).    *)
(* And of the session persistence managers                                 *)
(* (k8s/controllers/session_persistence.py) on their shared store.         *)
(***************************************************************************)
EXTENDS Integers, Sequences, FiniteSets, TLC

(***************************************************************************)
(* Program constants                                                       *)
(***************************************************************************)
failure_threshold == 5
recovery_timeout == 30
half_open_max_calls == 3
health_check_interval == 10
affinity_ttl == 3600
queue_depth_ceiling == 50

(***************************************************************************)
(* Bounds of the model                                                     *)
(***************************************************************************)
\* record_failure is not called once failure_count has reached this value
MaxFailureCount == 7
\* the breaker harness' clock stops here
CBMaxNow == 70

CLOSED == "closed"
OPEN == "open"
HALF_OPEN == "half_open"

HEALTHY == "healthy"
DEGRADED == "degraded"
UNHEALTHY == "unhealthy"
OFFLINE == "offline"

Max(a, b) == IF a >= b THEN a ELSE b

(***************************************************************************)
(* CircuitBreaker: a record of its four mutable fields; the three methods  *)
(* are operators from the breaker (and the clock reading) to the breaker   *)
(* after the call.                                                         *)
(***************************************************************************)
CircuitBreaker ==
    [state |-> CLOSED, failure_count |-> 0, success_count |-> 0,
     last_failure_time |-> 0]

record_success_clears(b) ==
    IF b.state = HALF_OPEN
    THEN IF b.success_count + 1 >= half_open_max_calls
         THEN [b EXCEPT !.state = CLOSED, !.failure_count = 0,
                        !.success_count = 0]
         ELSE [b EXCEPT !.success_count = b.success_count + 1]
    ELSE [b EXCEPT !.failure_count = 0]

record_success(b) ==
    IF b.state = HALF_OPEN
    THEN IF b.success_count + 1 >= half_open_max_calls
         THEN [b EXCEPT !.state = CLOSED, !.failure_count = 0,
                        !.success_count = 0]
         ELSE [b EXCEPT !.success_count = b.success_count + 1]
    ELSE [b EXCEPT !.failure_count = Max(0, b.failure_count - 1)]

\* record_failure with the threshold compared by > instead of >=
record_failure_late(b, t) ==
    LET c == [b EXCEPT !.failure_count = b.failure_count + 1,
                       !.last_failure_time = t]
    IN  IF c.state = HALF_OPEN
        THEN [c EXCEPT !.state = OPEN]
        ELSE IF c.failure_count > failure_threshold
             THEN [c EXCEPT !.state = OPEN]
             ELSE c

record_failure(b, t) ==
    LET c == [b EXCEPT !.failure_count = b.failure_count + 1,
                       !.last_failure_time = t]
    IN  IF c.state = HALF_OPEN
        THEN [c EXCEPT !.state = OPEN]
        ELSE IF c.failure_count >= failure_threshold
             THEN [c EXCEPT !.state = OPEN]
             ELSE c

\* can_execute with the recovery timeout compared by > instead of >=
can_execute_never_probes(b, t) ==
    IF b.state = CLOSED
    THEN [ok |-> TRUE, cb |-> b]
    ELSE IF b.state = OPEN
         THEN [ok |-> FALSE, cb |-> b]
         ELSE [ok |-> TRUE, cb |-> b]

can_execute_late(b, t) ==
    IF b.state = CLOSED
    THEN [ok |-> TRUE, cb |-> b]
    ELSE IF b.state = OPEN
         THEN IF t - b.last_failure_time > recovery_timeout
              THEN [ok |-> TRUE,
                    cb |-> [b EXCEPT !.state = HALF_OPEN, !.success_count = 0]]
              ELSE [ok |-> FALSE, cb |-> b]
         ELSE [ok |-> TRUE, cb |-> b]

\* can_execute entering half-open without resetting success_count
can_execute_keeps_count(b, t) ==
    IF b.state = CLOSED
    THEN [ok |-> TRUE, cb |-> b]
    ELSE IF b.state = OPEN
         THEN IF t - b.last_failure_time >= recovery_timeout
              THEN [ok |-> TRUE, cb |-> [b EXCEPT !.state = HALF_OPEN]]
              ELSE [ok |-> FALSE, cb |-> b]
         ELSE [ok |-> TRUE, cb |-> b]

\* can_execute returns a value and may change the breaker: both are given.
can_execute(b, t) ==
    IF b.state = CLOSED
    THEN [ok |-> TRUE, cb |-> b]
    ELSE IF b.state = OPEN
         THEN IF t - b.last_failure_time >= recovery_timeout
              THEN [ok |-> TRUE,
                    cb |-> [b EXCEPT !.state = HALF_OPEN, !.success_count = 0]]
              ELSE [ok |-> FALSE, cb |-> b]
         ELSE [ok |-> TRUE, cb |-> b]

(***************************************************************************)
(* A breaker on its own, driven by any sequence of its three methods and   *)
(* the passing of time.  cbOp is the method of the last step, cbRet what   *)
(* can_execute last returned; cbStreak counts the record_failure calls     *)
(* made in a row since the breaker was closed with failure_count 0 (-1     *)
(* when something else came in between); cbHalfOpenSucc counts the         *)
(* record_success calls since the breaker last entered half-open.          *)
(***************************************************************************)
VARIABLES cb, cbNow, cbOp, cbRet, cbStreak, cbHalfOpenSucc

cbVars == <<cb, cbNow, cbOp, cbRet, cbStreak, cbHalfOpenSucc>>

CBInit ==
    /\ cb = CircuitBreaker
    /\ cbNow = 0
    /\ cbOp = "init"
    /\ cbRet = TRUE
    /\ cbStreak = 0
    /\ cbHalfOpenSucc = 0

StreakAfter(b) == IF b.state = CLOSED /\ b.failure_count = 0 THEN 0 ELSE -1

CBRecordSuccess ==
    /\ cb' = record_success(cb)
    /\ cbOp' = "record_success"
    /\ cbStreak' = StreakAfter(cb')
    /\ cbHalfOpenSucc' = IF cb.state = HALF_OPEN THEN cbHalfOpenSucc + 1
                         ELSE cbHalfOpenSucc
    /\ UNCHANGED <<cbNow, cbRet>>

CBRecordFailure ==
    /\ cb.failure_count < MaxFailureCount
    /\ cb' = record_failure(cb, cbNow)
    /\ cbOp' = "record_failure"
    /\ cbStreak' = IF cbStreak >= 0 THEN cbStreak + 1 ELSE -1
    /\ UNCHANGED <<cbNow, cbRet, cbHalfOpenSucc>>

CBCanExecute ==
    /\ cb' = can_execute(cb, cbNow).cb
    /\ cbRet' = can_execute(cb, cbNow).ok
    /\ cbOp' = "can_execute"
    /\ cbStreak' = StreakAfter(cb')
    /\ cbHalfOpenSucc' = IF cb.state # HALF_OPEN /\ cb'.state = HALF_OPEN
                         THEN 0 ELSE cbHalfOpenSucc
    /\ UNCHANGED cbNow

CBTick ==
    /\ cbNow + health_check_interval <= CBMaxNow
    /\ cbNow' = cbNow + health_check_interval
    /\ cbOp' = "tick"
    /\ UNCHANGED <<cb, cbRet, cbStreak, cbHalfOpenSucc>>


(***************************************************************************)
(* GlobalLoadBalancer.                                                     *)
(*                                                                         *)
(* pools, circuit_breakers and session_affinities are the three dicts of   *)
(* the instance; redis_affinities is the hash                              *)
(* "executor:loadbalancer:affinities" of the durable store and             *)
(* redis_expire_at the expiry set on that key (-1: none).  The hash        *)
(* "executor:loadbalancer:pools" is written by the coroutines below and    *)
(* read only by start(); its writes are kept as suspension points.         *)
(*                                                                         *)
(* A coroutine runs without interruption from one await to the next.  An   *)
(* await on the store is two steps: the store serves the command at some   *)
(* moment after it was issued (StoreServe: the command takes effect, or    *)
(* fails, and the reply is kept in the call), and the coroutine resumes    *)
(* with the reply later still.                                             *)
(***************************************************************************)
PoolNames == {"A", "B"}
SessionIds == {"s1", "s2"}
\* the calls that can be suspended at the same time
CallIds == {1, 2}

\* invocations of get_pool_for_session and release_session in a behaviour
\* where calls overlap
MaxCalls == 3
\* invocations in a behaviour where health checks and the clock run and
\* one call ends before the next starts
MaxSeqCalls == 2
\* health checks in one behaviour
MaxChecks == 1
\* advances of the clock in one behaviour
MaxTicks == 1
\* store commands that fail in one behaviour
MaxStoreFailures == 1
\* largest max_sessions a pool is registered with
MaxCap == 1
\* calls on one session id in the specification of overlapping lookups
MaxRaceCalls == 4
\* calls on each of two instances that share the store
MaxReplicaCalls == 2

\* callsLeft, checksLeft, ticksLeft and failuresLeft are what is left of the
\* bounds above, maxInFlight the number of calls that may overlap.  ret and
\* bound are kept for the properties: ret is what the last step returned
\* to a caller, bound[S] the bindings get_pool_for_session made for S that
\* have since stayed in force (no release_session(S), not expired, the pool
\* healthy all along), last_set[S] the binding _set_session_affinity last
\* made for S on this instance (none once S is released).  peer is a
\* second instance on the same store, and peer_released the session ids
\* it has released and no instance has bound again since.
VARIABLES pools, circuit_breakers, session_affinities,
          redis_affinities, redis_expire_at,
          calls, ret, now, bound, last_set, peer, peer_released,
          callsLeft, maxInFlight, checksLeft, ticksLeft, failuresLeft

lbVars == <<pools, circuit_breakers, session_affinities,
            redis_affinities, redis_expire_at,
            calls, ret, now, bound, last_set, peer, peer_released,
            callsLeft, maxInFlight, checksLeft, ticksLeft, failuresLeft>>

budget == <<callsLeft, maxInFlight, checksLeft, ticksLeft, failuresLeft>>

(***************************************************************************)
(* State of the session manager (executor/session.py): the registry        *)
(* sessions, the lock every method takes, the event the cleanup thread     *)
(* waits on, and the threads: the callers, the cleanup thread and the      *)
(* thread that calls stop().  A session is registered under a fresh id,    *)
(* here the next number; sandboxes[i] counts what was done to the sandbox  *)
(* of session i.  smRet is what the step just taken returned to a caller.  *)
(***************************************************************************)
default_ttl == 300

\* max_sessions the manager is constructed with
sm_max_sessions == 1
\* sessions created in one behaviour
MaxCreated == 2
\* get_session, execute_in_session and destroy_session calls in one behaviour
MaxSMCalls == 2
\* steps of the session manager's clock
MaxSMTicks == 1

Threads == {"t1", "t2"}
NoThread == "none"
Ids == 1..MaxCreated

VARIABLES sessions, sandboxes, lock, stop_cleanup, threads, sweeper,
          stopper, clock, smRet, next_id, smCallsLeft, smTicksLeft

smVars == <<sessions, sandboxes, lock, stop_cleanup, threads, sweeper,
            stopper, clock, smRet, next_id, smCallsLeft, smTicksLeft>>

(***************************************************************************)
(* State of one CodeSandbox (executor/sandbox.py): container is whether    *)
(* the handle self.container is set, runtime is the container as the       *)
(* container runtime has it, with the calls made on it counted, and sbRet  *)
(* is what the call just made came to, with the state it found.            *)
(***************************************************************************)
\* calls made on the sandbox in one behaviour
MaxSBCalls == 3
\* calls of the file operations in one behaviour
MaxPathCalls == 1
\* length of a path handed to a file operation
MaxPathLen == 4

VARIABLES container, runtime, sbRet, sbLeft

sbVars == <<container, runtime, sbRet, sbLeft>>

NoRuntime ==
    [created |-> FALSE, running |-> FALSE, removed |-> FALSE,
     stop_calls |-> 0, remove_calls |-> 0, put_calls |-> 0,
     get_calls |-> 0, exec_calls |-> 0, timeouts |-> 0]

NoSBReturn ==
    [op |-> "none", result |-> "none", language |-> "", path |-> <<>>,
     had |-> FALSE, before |-> NoRuntime, stop |-> "none"]

\* CodeSandbox.__init__: no container yet
SBNew ==
    /\ container = FALSE
    /\ runtime = NoRuntime
    /\ sbRet = NoSBReturn

\* no sandbox has been constructed
SBIdle ==
    /\ container = FALSE
    /\ runtime = [created |-> FALSE]
    /\ sbRet = [op |-> "none"]
    /\ sbLeft = 0

(***************************************************************************)
(* State of the session persistence managers                               *)
(* (k8s/controllers/session_persistence.py) that share one durable store:  *)
(* sp_sessions and sp_files are the store's session records and file       *)
(* hashes, active_sessions[m] is the cache of manager m, req[m] the        *)
(* request manager m is serving and snap[m] its snapshot task, each with   *)
(* the store command it waits for.  spRet is what the call that just       *)
(* returned gave its caller.                                                *)
(***************************************************************************)
sp_max_file_size == 2
files_ttl == 86400

\* calls made on the persistence managers in one behaviour
MaxSPCalls == 3
\* times a snapshot task wakes in one behaviour
MaxSnapshots == 1
\* store commands that fail in one behaviour
MaxSPFailures == 1
\* steps of the persistence managers' clock
MaxSPTicks == 1
MaxFileCalls == 4

SPManagers == {"m1", "m2"}
Pods == {"p1", "p2"}

VARIABLES sp_sessions, sp_files, active_sessions, sp_running,
          compression_enabled, req, snap, spRet, spNow, spLeft, sp_deleted

spVars == <<sp_sessions, sp_files, active_sessions, sp_running,
            compression_enabled, req, snap, spRet, spNow, spLeft, sp_deleted>>

\* file contents: the bytes and their length
NoContent == [data |-> "none", size |-> 0]
\* what the store or the cache holds for a file: zlib output or the bytes
StoredBytes(z, body) == [z |-> z, body |-> body]
NoBytes == StoredBytes(FALSE, NoContent)
EmptyFiles == [x \in {} |-> NoBytes]

\* SessionState (lines 27 to 63); created_at, template, expires_at, the
\* execution history and the installed packages are written once or never
\* and left out; migrated_at and restored_at are set with last_activity
SessionState(pool_name, pod_name, last_activity) ==
    [pool_name |-> pool_name, pod_name |-> pod_name,
     last_activity |-> last_activity, environment |-> "",
     migrated_from |-> "", restored |-> FALSE, files |-> EmptyFiles]

NoState == SessionState("", "", 0)

\* a store command and the answer to it
NoCommand ==
    [kind |-> "none", id |-> "", path |-> "", rec |-> NoState, ttl |-> 0,
     content |-> NoBytes]
NoAnswer ==
    [kind |-> "none", found |-> FALSE, rec |-> NoState,
     content |-> NoBytes, files |-> EmptyFiles]

\* a coroutine of a manager: the call it serves, the await it is at, what
\* it holds, the store command it waits for and the answer to it; before
\* is the manager's cache when the call was made, present and held are
\* what the store had for the session when it last took a command of the
\* coroutine; frozen holds the sessions a flush took from the cache when it
\* started (line 576) that were deleted from the cache since, as they
\* were when deleted
IdleTask ==
    [op |-> "none", pc |-> "idle", stage |-> "none", id |-> "", path |-> "",
     state |-> NoState, content |-> NoBytes, given |-> NoContent,
     new_pod |-> "", new_pool |-> "", old_pod |-> "", ttl |-> 0,
     todo |-> {}, pending |-> NoCommand, reply |-> NoAnswer,
     stored |-> TRUE, wrote |-> FALSE,
     before |-> [x \in {} |-> NoState],
     present |-> FALSE, held |-> EmptyFiles,
     frozen |-> [x \in {} |-> NoState]]

\* what a call returned has, besides op, the manager m, result saying
\* which kind of value, the value as state or content, from saying where
\* a read was served from, and the coroutine as task; this is the value
\* when no call has just returned
NoSPReturn == [op |-> "none"]

NoBudget == [calls |-> 0]

\* SessionPersistenceManager.__init__ and start(): an empty cache, the
\* snapshot task asleep
SPStart ==
    /\ sp_sessions = [x \in {} |-> [rec |-> NoState, ttl |-> 0]]
    /\ sp_files = [x \in {} |-> [entries |-> EmptyFiles, ttl |-> 0]]
    /\ active_sessions = [m \in SPManagers |-> [x \in {} |-> NoState]]
    /\ sp_running = [m \in SPManagers |-> TRUE]
    /\ req = [m \in SPManagers |-> IdleTask]
    /\ snap = [m \in SPManagers |-> [IdleTask EXCEPT !.pc = "sleep"]]
    /\ spRet = NoSPReturn
    /\ spNow = 0
    /\ sp_deleted = [x \in {} |-> 0]

\* no persistence manager has been constructed
SPIdle ==
    /\ sp_sessions = [x \in {} |-> [rec |-> NoState, ttl |-> 0]]
    /\ sp_files = [x \in {} |-> [entries |-> EmptyFiles, ttl |-> 0]]
    /\ active_sessions = [m \in {} |-> [x \in {} |-> NoState]]
    /\ sp_running = [m \in {} |-> TRUE]
    /\ req = [m \in {} |-> IdleTask]
    /\ snap = [m \in {} |-> IdleTask]
    /\ spRet = NoSPReturn
    /\ spNow = 0
    /\ compression_enabled = TRUE
    /\ spLeft = NoBudget
    /\ sp_deleted = [x \in {} |-> 0]

(***************************************************************************)
(* Registration of pools (k8s/controllers/load_balancer.py): redis_pools   *)
(* is the hash of the registered pools in the store, each field valid JSON *)
(* of a pool or not; pool_ops are the coroutines that register, unregister *)
(* and load pools.                                                         *)
(***************************************************************************)
MaxRegCalls == 3
MaxRegFailures == 1
MaxBreakerFailures == 1

RegTasks == {"k1", "k2"}

VARIABLES redis_pools, pool_ops, regLeft

regVars == <<redis_pools, pool_ops, regLeft>>

IdleReg ==
    [op |-> "none", pc |-> "idle", name |-> "", max_sessions |-> 0,
     reply |-> [kind |-> "none", fields |-> [x \in {} |-> "json"]]]

NoPoolsStored == [x \in {} |-> "json"]

\* no pool is being registered
RegIdle ==
    /\ redis_pools = NoPoolsStored
    /\ pool_ops = [k \in {} |-> IdleReg]
    /\ regLeft = [calls |-> 0]

extVars == <<sbVars, spVars, regVars>>

ExtIdle == SBIdle /\ SPIdle /\ RegIdle

\* what the load balancer leaves alone
otherVars == <<cbVars, smVars, extVars>>

vars == <<lbVars, cbVars, smVars, extVars>>

\* SessionAffinity: session_id is the key it is stored under
SessionAffinity(pool_name, created_at) ==
    [pool_name |-> pool_name, created_at |-> created_at]

NullAffinity == SessionAffinity("", 0)

\* the second instance between two of its calls: cache is its
\* session_affinities, left the calls it may still be asked
IdlePeer == [pc |-> "idle", sid |-> "", pool |-> "",
             cache |-> [x \in {} |-> NullAffinity], left |-> 0]

is_expired(a, t) == t - a.created_at > affinity_ttl

\* dict helpers
Put(f, k, v) == [x \in DOMAIN f \cup {k} |-> IF x = k THEN v ELSE f[x]]
Del(f, k) == [x \in DOMAIN f \ {k} |-> f[x]]
EmptyDict == [x \in {} |-> NullAffinity]

NoReply == [kind |-> "none", val |-> NullAffinity]
Reply(kind, val) == [kind |-> kind, val |-> val]

\* what a call that does not overlap another can compare with when it
\* returns: the cache, the store and the session counts as it started
NoSnapshot ==
    [cache |-> EmptyDict, store |-> EmptyDict, sessions |-> EmptyDict]

\* A call that is not running.  The fields after reply record, for the
\* properties, what the call met: alone, that no other call for the same
\* session id ran while it did; storeOk, that its last store command
\* succeeded; expect, the bindings in force for its session id when it
\* started; snap, the state it started in.
IdleCall ==
    [op |-> "none", pc |-> "idle", sid |-> "", pool |-> "", created_at |-> 0,
     reply |-> NoReply, alone |-> TRUE, storeOk |-> TRUE, expect |-> {},
     snap |-> NoSnapshot]

\* ret is what the step just taken returned to a caller (NoReturn when the
\* step was not the return of a call)
\* A health check leaves in ret the answer it got (check) and the breaker
\* of the pool as it found it (before).
NoOutcome == [kind |-> "none", queue_depth |-> 0, overloaded |-> FALSE,
              readable |-> TRUE]

NoReturn ==
    [op |-> "none", sid |-> "", pool |-> "", fresh |-> FALSE,
     alone |-> TRUE, storeOk |-> TRUE, expected |-> {}, snap |-> NoSnapshot,
     check |-> NoOutcome, before |-> CircuitBreaker]

InFlight(c) == calls[c].pc # "idle"

PoolEndpoint(max_sessions, status) ==
    [max_sessions |-> max_sessions, current_sessions |-> 0,
     status |-> status, queue_depth |-> 0, weight |-> 100]

\* What a pool and its breaker can be when the first session arrives: as
\* registered, after four health checks that timed out in a row, or after
\* a fifth check, refused, that has just opened the breaker.
HealthAtStart ==
    { [status |-> HEALTHY, cb |-> CircuitBreaker],
      [status |-> DEGRADED,
       cb |-> [CircuitBreaker EXCEPT !.failure_count = failure_threshold - 1]],
      [status |-> UNHEALTHY,
       cb |-> [CircuitBreaker EXCEPT !.failure_count = failure_threshold,
                                     !.state = OPEN]] }

\* What the durable store can hold when the instance starts with an empty
\* cache: nothing, or a binding an earlier instance left.
StoreAtStart ==
    { EmptyDict, [x \in {"s1"} |-> SessionAffinity("A", 0)] }

\* Both pools as registered (with the same max_sessions), calls that
\* overlap, no health check.
InitOverlap ==
    /\ \E cap \in 1..MaxCap :
          pools = [p \in PoolNames |-> PoolEndpoint(cap, HEALTHY)]
    /\ circuit_breakers = [p \in PoolNames |-> CircuitBreaker]
    /\ redis_affinities = EmptyDict
    /\ callsLeft = MaxCalls
    /\ maxInFlight = Cardinality(CallIds)
    /\ checksLeft = 0
    /\ ticksLeft = 0
    /\ failuresLeft = MaxStoreFailures
    /\ peer = IdlePeer

\* One pool registered, one call at a time, health checks and the clock.
InitHealth ==
    /\ \E cap \in 1..MaxCap, h \in HealthAtStart :
          /\ pools = [p \in {"A"} |-> PoolEndpoint(cap, h.status)]
          /\ circuit_breakers = [p \in {"A"} |-> h.cb]
    /\ redis_affinities \in StoreAtStart
    /\ callsLeft = MaxSeqCalls
    /\ maxInFlight = 1
    /\ checksLeft = MaxChecks
    /\ ticksLeft = MaxTicks
    /\ failuresLeft = 0
    /\ peer = IdlePeer

LBStart ==
    /\ session_affinities = EmptyDict
    /\ redis_expire_at = -1
    /\ calls = [c \in CallIds |-> IdleCall]
    /\ ret = NoReturn
    /\ now = 0
    /\ bound = [S \in SessionIds |-> {}]
    /\ last_set = [S \in SessionIds |-> NullAffinity]
    /\ peer_released = {}

(***************************************************************************)
(* _get_available_pools and _select_weighted_pool                          *)
(***************************************************************************)
\* the checks of a candidate without the one on capacity
pool_is_available_any_load(pl, br, t) ==
    /\ can_execute(br, t).ok
    /\ pl.status \in {HEALTHY, DEGRADED}
    /\ ~(pl.queue_depth > queue_depth_ceiling)

\* the checks of a candidate without the one on the queue depth
pool_is_available_any_queue(pl, br, t) ==
    /\ can_execute(br, t).ok
    /\ pl.status \in {HEALTHY, DEGRADED}
    /\ ~(pl.current_sessions >= pl.max_sessions)

\* the four checks a pool passes to be a candidate; br is its breaker
pool_is_available(pl, br, t) ==
    /\ can_execute(br, t).ok
    /\ pl.status \in {HEALTHY, DEGRADED}
    /\ ~(pl.current_sessions >= pl.max_sessions)
    /\ ~(pl.queue_depth > queue_depth_ceiling)

get_available_pools ==
    {p \in DOMAIN pools : pool_is_available(pools[p], circuit_breakers[p], now)}

\* can_execute is called on every registered pool's breaker
breakers_after_can_execute ==
    [p \in DOMAIN circuit_breakers |-> can_execute(circuit_breakers[p], now).cb]

\* score = available_capacity * weight * health_factor * response_factor;
\* response_factor is positive whatever the response time, so the sign of
\* the score is that of (max - current) * weight * health_factor (in tenths)
ScoreSign(pl) ==
    (pl.max_sessions - pl.current_sessions) * pl.weight
        * (IF pl.status = DEGRADED THEN 7 ELSE 10)

\* The weighted draw among the three best scored: with at most three
\* candidates all of them are in the draw; a candidate of score 0 is drawn
\* only when every score is 0 (random.choice).
select_weighted_pool(avail) ==
    IF \A p \in avail : ScoreSign(pools[p]) = 0
    THEN avail
    ELSE {p \in avail : ScoreSign(pools[p]) > 0}

(***************************************************************************)
(* Calls                                                                    *)
(***************************************************************************)
\* a call for session id S starts: the calls for S it overlaps are no
\* longer alone
Overlapped(S) ==
    [c \in CallIds |->
        IF InFlight(c) /\ calls[c].sid = S
        THEN [calls[c] EXCEPT !.alone = FALSE] ELSE calls[c]]

AloneAtStart(S) == \A c \in CallIds : ~(InFlight(c) /\ calls[c].sid = S)

\* the state a call starts in, kept when calls do not overlap
Snapshot ==
    IF maxInFlight = 1
    THEN [cache |-> session_affinities, store |-> redis_affinities,
          sessions |-> [p \in DOMAIN pools |-> pools[p].current_sessions]]
    ELSE NoSnapshot

\* a call may start, and takes the first free slot
CanStart ==
    /\ callsLeft > 0
    /\ Cardinality({c \in CallIds : InFlight(c)}) < maxInFlight

FreeSlot == CHOOSE c \in CallIds : ~InFlight(c) /\ \A d \in CallIds : d < c => InFlight(d)

\* call k of cs (the calls after this step apart from k) returns
Return(cs, k, me, pool, fresh) ==
    /\ ret' = [op |-> me.op, sid |-> me.sid, pool |-> pool,
               fresh |-> fresh, alone |-> me.alone, storeOk |-> me.storeOk,
               expected |-> IF me.op = "get"
                            THEN {b.pool_name : b \in me.expect \cap bound[me.sid]}
                            ELSE {},
               snap |-> me.snap,
               check |-> NoOutcome, before |-> CircuitBreaker]
    /\ calls' = [cs EXCEPT ![k] = IdleCall]

\* the call suspends at an await on the store
Await(cs, k, me, pc) ==
    /\ calls' = [cs EXCEPT ![k] = [me EXCEPT !.pc = pc, !.reply = NoReply]]
    /\ ret' = NoReturn

\* the rest of get_pool_for_session with the binding written in the cache
\* before the candidates are looked at, also when there is none
AfterLookup_binds_first(cs, k, me, found, a, cache) ==
    IF /\ found
       /\ ~is_expired(a, now)
       /\ a.pool_name \in DOMAIN pools
       /\ pools[a.pool_name].status = HEALTHY
    THEN /\ session_affinities' = cache
         /\ Return(cs, k, me, a.pool_name, FALSE)
         /\ UNCHANGED <<pools, circuit_breakers, bound, last_set,
                        peer_released>>
    ELSE /\ circuit_breakers' = breakers_after_can_execute
         /\ UNCHANGED pools
         /\ IF get_available_pools = {}
            THEN /\ session_affinities' =
                        Put(cache, me.sid, SessionAffinity("None", now))
                 /\ Return(cs, k, me, "None", FALSE)
                 /\ UNCHANGED <<bound, last_set, peer_released>>
            ELSE \E P \in select_weighted_pool(get_available_pools) :
                    /\ session_affinities' =
                           Put(cache, me.sid, SessionAffinity(P, now))
                    /\ Await(cs, k, [me EXCEPT !.pool = P, !.created_at = now],
                             "set_hset")
                    /\ bound' = [bound EXCEPT ![me.sid] =
                                     @ \cup {SessionAffinity(P, now)}]
                    /\ last_set' = [last_set EXCEPT ![me.sid] =
                                        SessionAffinity(P, now)]
                    /\ peer_released' = peer_released \ {me.sid}

\* get_pool_for_session from the end of _get_session_affinity (lines 309 to
\* 327): found says whether a binding a was returned, cache is the local
\* cache as the lookup left it.
AfterLookup(cs, k, me, found, a, cache) ==
    IF /\ found
       /\ ~is_expired(a, now)
       /\ a.pool_name \in DOMAIN pools
       /\ pools[a.pool_name].status = HEALTHY
    THEN /\ session_affinities' = cache
         /\ Return(cs, k, me, a.pool_name, FALSE)
         /\ UNCHANGED <<pools, circuit_breakers, bound, last_set,
                        peer_released>>
    ELSE /\ circuit_breakers' = breakers_after_can_execute
         /\ UNCHANGED pools
         /\ IF get_available_pools = {}
            THEN /\ session_affinities' = cache
                 /\ Return(cs, k, me, "None", FALSE)
                 /\ UNCHANGED <<bound, last_set, peer_released>>
            ELSE \E P \in select_weighted_pool(get_available_pools) :
                    \* _set_session_affinity up to its first await
                    /\ session_affinities' =
                           Put(cache, me.sid, SessionAffinity(P, now))
                    /\ Await(cs, k, [me EXCEPT !.pool = P, !.created_at = now],
                             "set_hset")
                    /\ bound' = [bound EXCEPT ![me.sid] =
                                     @ \cup {SessionAffinity(P, now)}]
                    /\ last_set' = [last_set EXCEPT ![me.sid] =
                                        SessionAffinity(P, now)]
                    /\ peer_released' = peer_released \ {me.sid}

\* get_pool_for_session(S) is called and runs to its first await
get_pool_for_session(S) ==
    /\ LET k == FreeSlot
           me == [IdleCall EXCEPT !.op = "get", !.sid = S,
                                  !.alone = AloneAtStart(S),
                                  !.expect = bound[S],
                                  !.snap = Snapshot]
           hit == S \in DOMAIN session_affinities
       IN  IF hit /\ ~is_expired(session_affinities[S], now)
           THEN AfterLookup(Overlapped(S), k, me, TRUE,
                            session_affinities[S], session_affinities)
           ELSE /\ session_affinities' = Del(session_affinities, S)
                /\ Await(Overlapped(S), k, me, "get_hget")
                /\ UNCHANGED <<pools, circuit_breakers, bound, last_set,
                        peer_released>>
    /\ UNCHANGED <<redis_affinities, redis_expire_at, now, maxInFlight,
                   checksLeft, ticksLeft, failuresLeft>>
    /\ UNCHANGED <<otherVars, peer>>

\* one of the calls of get_pool_for_session the run is bounded to
GetPoolForSession(S) ==
    /\ CanStart
    /\ callsLeft' = callsLeft - 1
    /\ get_pool_for_session(S)

\* _get_session_affinity resumes from redis.hget (lines 435 to 446); an
\* exception of the store is logged and the lookup returns None
GetAffinityReply(k) ==
    /\ calls[k].pc = "get_hget"
    /\ calls[k].reply.kind # "none"
    /\ LET me == calls[k]
           a == me.reply.val
       IN  IF me.reply.kind = "value"
           THEN IF ~is_expired(a, now)
                THEN AfterLookup(calls, k, me, TRUE, a,
                                 Put(session_affinities, me.sid, a))
                ELSE /\ Await(calls, k, me, "get_hdel")
                     /\ UNCHANGED <<pools, circuit_breakers,
                                    session_affinities, bound, last_set,
                                    peer_released>>
           ELSE AfterLookup(calls, k, me, FALSE, NullAffinity,
                            session_affinities)
    /\ UNCHANGED <<redis_affinities, redis_expire_at, now, budget>>
    /\ UNCHANGED <<otherVars, peer>>

\* _get_session_affinity resumes from the redis.hdel of an expired binding
GetExpiredDeleted(k) ==
    /\ calls[k].pc = "get_hdel"
    /\ calls[k].reply.kind # "none"
    /\ AfterLookup(calls, k, calls[k], FALSE, NullAffinity, session_affinities)
    /\ UNCHANGED <<redis_affinities, redis_expire_at, now, budget>>
    /\ UNCHANGED <<otherVars, peer>>

\* selected_pool.current_sessions += 1, then _update_pool_metrics up to its
\* await (lines 330, 331)
CountSession(k) ==
    /\ pools' = IF calls[k].pool \in DOMAIN pools
                THEN [pools EXCEPT ![calls[k].pool].current_sessions = @ + 1]
                ELSE pools
    /\ Await(calls, k, calls[k], "get_metrics")

\* _set_session_affinity resumes from redis.hset (lines 459 to 466): on an
\* exception redis.expire is skipped
SetAffinityStored(k) ==
    /\ calls[k].pc = "set_hset"
    /\ calls[k].reply.kind # "none"
    /\ IF calls[k].reply.kind = "error"
       THEN CountSession(k)
       ELSE /\ Await(calls, k, calls[k], "set_expire")
            /\ UNCHANGED pools
    /\ UNCHANGED <<circuit_breakers, session_affinities, redis_affinities,
                   redis_expire_at, now, budget>>
    /\ UNCHANGED <<otherVars, peer>>
    /\ UNCHANGED <<bound, last_set, peer_released>>

\* _set_session_affinity resumes from redis.expire and returns
SetAffinityExpireSet(k) ==
    /\ calls[k].pc = "set_expire"
    /\ calls[k].reply.kind # "none"
    /\ CountSession(k)
    /\ UNCHANGED <<circuit_breakers, session_affinities, redis_affinities,
                   redis_expire_at, now, budget>>
    /\ UNCHANGED <<otherVars, peer>>
    /\ UNCHANGED <<bound, last_set, peer_released>>

\* get_pool_for_session resumes from _update_pool_metrics and returns the
\* selected pool (lines 333 to 335)
GetPoolReturn(k) ==
    /\ calls[k].pc = "get_metrics"
    /\ Return(calls, k, calls[k], calls[k].pool, TRUE)
    /\ UNCHANGED <<pools, circuit_breakers, session_affinities,
                   redis_affinities, redis_expire_at, now, budget>>
    /\ UNCHANGED <<otherVars, peer>>
    /\ UNCHANGED <<bound, last_set, peer_released>>

\* the decrement of release_session without its floor
released_count_unfloored(n) == n - 1

\* pool.current_sessions = max(0, pool.current_sessions - 1)
released_count(n) == Max(0, n - 1)

\* release_session(S, P) is called and runs to its first await (lines 470
\* to 480)
ReleaseSession(S, P) ==
    /\ CanStart
    /\ callsLeft' = callsLeft - 1
    /\ LET k == FreeSlot
           me == [IdleCall EXCEPT !.op = "release", !.sid = S, !.pool = P,
                                  !.alone = AloneAtStart(S)]
       IN  IF P \in DOMAIN pools
           THEN /\ pools' = [pools EXCEPT ![P].current_sessions =
                                              released_count(@)]
                /\ Await(Overlapped(S), k, me, "rel_metrics")
                /\ UNCHANGED session_affinities
           ELSE /\ session_affinities' = Del(session_affinities, S)
                /\ Await(Overlapped(S), k, me, "rel_hdel")
                /\ UNCHANGED pools
    /\ UNCHANGED <<circuit_breakers, redis_affinities, redis_expire_at, now,
                   maxInFlight, checksLeft, ticksLeft, failuresLeft>>
    /\ UNCHANGED <<otherVars, peer>>
    /\ bound' = [bound EXCEPT ![S] = {}]
    /\ last_set' = [last_set EXCEPT ![S] = NullAffinity]
    /\ UNCHANGED peer_released

\* release_session resumes from _update_pool_metrics (lines 475 to 480)
ReleaseClearCache(k) ==
    /\ calls[k].pc = "rel_metrics"
    /\ session_affinities' = Del(session_affinities, calls[k].sid)
    /\ Await(calls, k, calls[k], "rel_hdel")
    /\ UNCHANGED <<pools, circuit_breakers, redis_affinities, redis_expire_at,
                   now, budget>>
    /\ UNCHANGED <<otherVars, peer>>
    /\ last_set' = [last_set EXCEPT ![calls[k].sid] = NullAffinity]
    /\ UNCHANGED <<bound, peer_released>>

\* release_session resumes from redis.hdel and returns; an exception of the
\* store is logged
ReleaseReturn(k) ==
    /\ calls[k].pc = "rel_hdel"
    /\ calls[k].reply.kind # "none"
    /\ Return(calls, k, [calls[k] EXCEPT !.storeOk = (calls[k].reply.kind = "ok")],
              calls[k].pool, FALSE)
    /\ UNCHANGED <<pools, circuit_breakers, session_affinities,
                   redis_affinities, redis_expire_at, now, budget>>
    /\ UNCHANGED <<otherVars, peer>>
    /\ UNCHANGED <<bound, last_set, peer_released>>

(***************************************************************************)
(* The durable store                                                       *)
(***************************************************************************)
StoreCommands == {"get_hget", "get_hdel", "set_hset", "set_expire", "rel_hdel"}

\* a hash left without fields is removed with its expiry
ExpiryAfterDel(h) == IF DOMAIN h = {} THEN -1 ELSE redis_expire_at

\* the store serves the command call k is waiting for
StoreServe(k) ==
    /\ calls[k].pc \in StoreCommands
    /\ calls[k].reply.kind = "none"
    /\ LET me == calls[k]
           S == me.sid
       IN  \/ /\ me.pc = "get_hget"
              /\ calls' = [calls EXCEPT ![k].reply =
                              IF S \in DOMAIN redis_affinities
                              THEN Reply("value", redis_affinities[S])
                              ELSE Reply("nil", NullAffinity)]
              /\ UNCHANGED <<redis_affinities, redis_expire_at>>
           \/ /\ me.pc \in {"get_hdel", "rel_hdel"}
              /\ redis_affinities' = Del(redis_affinities, S)
              /\ redis_expire_at' = ExpiryAfterDel(redis_affinities')
              /\ calls' = [calls EXCEPT ![k].reply = Reply("ok", NullAffinity)]
           \/ /\ me.pc = "set_hset"
              /\ redis_affinities' =
                     Put(redis_affinities, S,
                         SessionAffinity(me.pool, me.created_at))
              /\ calls' = [calls EXCEPT ![k].reply = Reply("ok", NullAffinity)]
              /\ UNCHANGED redis_expire_at
           \/ /\ me.pc = "set_expire"
              /\ redis_expire_at' = IF DOMAIN redis_affinities = {}
                                    THEN -1 ELSE now + affinity_ttl
              /\ calls' = [calls EXCEPT ![k].reply = Reply("ok", NullAffinity)]
              /\ UNCHANGED redis_affinities
    /\ ret' = NoReturn
    /\ UNCHANGED <<pools, circuit_breakers, session_affinities, now, budget>>
    /\ UNCHANGED <<otherVars, peer>>
    /\ UNCHANGED <<bound, last_set, peer_released>>

\* the command call k is waiting for fails: the client raises
StoreFail(k) ==
    /\ calls[k].pc \in StoreCommands
    /\ calls[k].reply.kind = "none"
    /\ failuresLeft > 0
    /\ failuresLeft' = failuresLeft - 1
    /\ ret' = NoReturn
    /\ calls' = [calls EXCEPT ![k].reply = Reply("error", NullAffinity)]
    /\ UNCHANGED <<pools, circuit_breakers, session_affinities,
                   redis_affinities, redis_expire_at, now,
                   callsLeft, maxInFlight, checksLeft, ticksLeft>>
    /\ UNCHANGED <<otherVars, peer>>
    /\ UNCHANGED <<bound, last_set, peer_released>>

(***************************************************************************)
(* Health checks and the clock                                             *)
(***************************************************************************)
\* what GET /health can come to: the status line or the exception, and for
\* a 200 whether response.json() can read the body, the queue depth
\* reported and whether cpu or memory is above 90
QueueDepths == {0, queue_depth_ceiling, queue_depth_ceiling + 1}

HealthOutcomes ==
    [kind : {"200"}, queue_depth : QueueDepths, overloaded : {FALSE},
     readable : {TRUE}]
    \cup [kind : {"200"}, queue_depth : {0}, overloaded : {TRUE},
          readable : {TRUE}]
    \cup [kind : {"200"}, queue_depth : {0}, overloaded : {FALSE},
          readable : {FALSE}]
    \cup [kind : {"non_200", "timeout", "exception"}, queue_depth : {0},
          overloaded : {FALSE}, readable : {TRUE}]

\* _check_pool_health that tries a failed check a second time
check_pool_health_retried(pl, br, o, t) ==
    IF o.kind = "200" /\ o.readable
    THEN [pool |-> [pl EXCEPT !.queue_depth = o.queue_depth,
                              !.status = IF o.overloaded THEN DEGRADED
                                         ELSE HEALTHY],
          cb |-> record_success(br)]
    ELSE [pool |-> [pl EXCEPT !.status = IF o.kind = "timeout" THEN DEGRADED
                                         ELSE UNHEALTHY],
          cb |-> record_failure(record_failure(br, t), t)]

\* _check_pool_health from the answer on (lines 516 to 548); a 200 whose
\* body response.json() cannot read raises in line 517 and is handled by
\* except Exception (lines 545 to 548)
check_pool_health(pl, br, o, t) ==
    IF o.kind = "200" /\ o.readable
    THEN [pool |-> [pl EXCEPT !.queue_depth = o.queue_depth,
                              !.status = IF o.overloaded THEN DEGRADED
                                         ELSE HEALTHY],
          cb |-> record_success(br)]
    ELSE [pool |-> [pl EXCEPT !.status = IF o.kind = "timeout" THEN DEGRADED
                                         ELSE UNHEALTHY],
          cb |-> record_failure(br, t)]

run_check_pool_health(p, o) ==
    /\ p \in DOMAIN pools
    /\ ret' = [NoReturn EXCEPT !.op = "check", !.pool = p, !.check = o,
                               !.before = circuit_breakers[p]]
    /\ pools' = [pools EXCEPT ![p] =
                    check_pool_health(pools[p], circuit_breakers[p], o, now).pool]
    /\ circuit_breakers' = [circuit_breakers EXCEPT ![p] =
                    check_pool_health(pools[p], circuit_breakers[p], o, now).cb]
    /\ UNCHANGED <<session_affinities, redis_affinities, redis_expire_at,
                   calls, now, callsLeft, maxInFlight, ticksLeft,
                   failuresLeft>>
    /\ UNCHANGED <<otherVars, peer>>
    /\ bound' = [S \in SessionIds |->
                    {b \in bound[S] : b.pool_name = p => pools'[p].status = HEALTHY}]
    /\ UNCHANGED <<last_set, peer_released>>

\* one of the health checks the run is bounded to
CheckPoolHealth(p, o) ==
    /\ checksLeft > 0
    /\ checksLeft' = checksLeft - 1
    /\ run_check_pool_health(p, o)

TickSteps == {recovery_timeout, affinity_ttl + 1}

\* time passes; the store drops the affinities hash when its expiry is due
Tick(d) ==
    /\ ticksLeft > 0
    /\ ticksLeft' = ticksLeft - 1
    /\ ret' = NoReturn
    /\ now' = now + d
    /\ IF redis_expire_at # -1 /\ now' >= redis_expire_at
       THEN /\ redis_affinities' = EmptyDict
            /\ redis_expire_at' = -1
       ELSE UNCHANGED <<redis_affinities, redis_expire_at>>
    /\ UNCHANGED <<pools, circuit_breakers, session_affinities, calls,
                   callsLeft, maxInFlight, checksLeft, failuresLeft>>
    /\ UNCHANGED <<otherVars, peer>>
    /\ bound' = [S \in SessionIds |-> {b \in bound[S] : ~is_expired(b, now')}]
    /\ UNCHANGED <<last_set, peer_released>>

(***************************************************************************)
(* The session manager                                                     *)
(***************************************************************************)
\* a Session as create_session makes it at time t
Session(t) ==
    [last_used |-> t, ttl |-> default_ttl, is_active |-> TRUE,
     use_count |-> 0]

idle_time(s, t) == t - s.last_used

\* is_expired that counts a session idle for exactly its ttl as expired
session_is_expired_at_ttl(s, t) == idle_time(s, t) >= s.ttl

\* Session.is_expired at time t
session_is_expired(s, t) == idle_time(s, t) > s.ttl

\* Session.touch at time t
touch(s, t) == [s EXCEPT !.last_used = t, !.use_count = @ + 1]

EmptyRegistry == [i \in {} |-> Session(0)]

\* The sandbox of a session: whether its container exists, how many times
\* a container of it was destroyed, how many times code ran in it; and,
\* for the properties, the destroy_session calls made for the session
\* from the first that found it registered, and how many returned True.
NoSandbox ==
    [created |-> FALSE, destroys |-> 0, runs |-> 0, destroy_calls |-> 0,
     destroy_trues |-> 0]

\* CodeSandbox.destroy: only a container that exists is stopped and removed
sandbox_destroy(b) ==
    IF b.created THEN [b EXCEPT !.created = FALSE, !.destroys = @ + 1]
    ELSE b

\* what run_code can come to in a sandbox whose container exists
ErrorResult == [status |-> "error", exit_code |-> -1]
Raised == [status |-> "raised", exit_code |-> -1]

SandboxOutcomes ==
    { [kind |-> "returns", value |-> [status |-> "success", exit_code |-> 0]],
      [kind |-> "returns", value |-> [status |-> "timeout", exit_code |-> -1]],
      [kind |-> "raises", value |-> Raised] }

\* _destroy_session_unlocked that leaves the entry in the registry
destroy_session_unlocked_keeps_entry(reg, boxes, i) ==
    IF i \notin DOMAIN reg
    THEN [sessions |-> reg, sandboxes |-> boxes, ok |-> FALSE]
    ELSE [sessions |-> [reg EXCEPT ![i].is_active = FALSE],
          sandboxes |-> [boxes EXCEPT ![i] = sandbox_destroy(@)],
          ok |-> TRUE]

\* _destroy_session_unlocked(i) on registry reg and sandboxes boxes;
\* CodeSandbox.destroy does not raise
destroy_session_unlocked(reg, boxes, i) ==
    IF i \notin DOMAIN reg
    THEN [sessions |-> reg, sandboxes |-> boxes, ok |-> FALSE]
    ELSE [sessions |-> [j \in DOMAIN reg \ {i} |-> reg[j]],
          sandboxes |-> [boxes EXCEPT ![i] = sandbox_destroy(@)],
          ok |-> TRUE]

\* every session of ids destroyed, one after the other
RECURSIVE destroy_each(_, _, _)
destroy_each(reg, boxes, ids) ==
    IF ids = {} THEN [sessions |-> reg, sandboxes |-> boxes]
    ELSE LET i == CHOOSE j \in ids : \A k \in ids : j <= k
             d == destroy_session_unlocked(reg, boxes, i)
         IN  destroy_each(d.sessions, d.sandboxes, ids \ {i})

\* _cleanup_expired that takes every session for expired
cleanup_expired_all(reg, boxes, t) == destroy_each(reg, boxes, DOMAIN reg)

\* _cleanup_expired at time t
cleanup_expired(reg, boxes, t) ==
    destroy_each(reg, boxes,
                 {i \in DOMAIN reg : session_is_expired(reg[i], t)})

\* get_session(i) at time t: found says whether the session is returned
get_session(reg, boxes, i, t) ==
    IF i \notin DOMAIN reg
    THEN [sessions |-> reg, sandboxes |-> boxes, found |-> FALSE]
    ELSE IF ~reg[i].is_active
    THEN [sessions |-> reg, sandboxes |-> boxes, found |-> FALSE]
    ELSE IF session_is_expired(reg[i], t)
    THEN [sessions |-> destroy_session_unlocked(reg, boxes, i).sessions,
          sandboxes |-> destroy_session_unlocked(reg, boxes, i).sandboxes,
          found |-> FALSE]
    ELSE [sessions |-> [reg EXCEPT ![i] = touch(@, t)],
          sandboxes |-> boxes, found |-> TRUE]

\* execute_in_session that lets the exception of run_code through
execute_result_propagates(b, o) ==
    IF ~b.created THEN Raised
    ELSE IF o.kind = "raises" THEN Raised
    ELSE o.value

\* what execute_in_session returns once get_session found the session:
\* run_code raises when the container is gone or the run raises, and the
\* exception becomes an error result (lines 225 to 234)
execute_result(b, o) ==
    IF ~b.created THEN ErrorResult
    ELSE IF o.kind = "raises" THEN ErrorResult
    ELSE o.value

\* The sandbox after run_code came to o in it: the code ran, and when it
\* ran into the timeout the sandbox destroyed itself (sandbox.py, lines
\* 252 to 260); run_code then returns a result, here marked timeout.
sandbox_after_run(b, o) ==
    IF ~b.created THEN b
    ELSE IF o.kind = "returns" /\ o.value.status = "timeout"
    THEN sandbox_destroy([b EXCEPT !.runs = @ + 1])
    ELSE [b EXCEPT !.runs = @ + 1]

\* with self._lock taken by any thread at any time
can_acquire_unlocked(t) == TRUE

\* with self._lock: thread t can take the lock when no other thread holds it
can_acquire(t) == lock \in {NoThread, t}

\* A thread in a call of several steps keeps, for the properties, the
\* registry, the sandboxes and the clock as the call found them.
IdleThread ==
    [pc |-> "idle", id |-> 0, before |-> EmptyRegistry,
     boxes |-> [i \in Ids |-> NoSandbox], at |-> 0]

NoRun == [kind |-> "none", value |-> ErrorResult]

\* smRet: the call that returned, its result (value for
\* execute_in_session, ran being what run_code came to), and the
\* registry, the sandboxes and the clock as the call found them
NoSMReturn ==
    [op |-> "none", id |-> 0, result |-> "none", value |-> ErrorResult,
     ran |-> NoRun, before |-> EmptyRegistry,
     boxes |-> [i \in Ids |-> NoSandbox], at |-> 0]

SMReturn(op, i, result, value, before, boxes, at) ==
    [op |-> op, id |-> i, result |-> result, value |-> value,
     ran |-> NoRun, before |-> before, boxes |-> boxes, at |-> at]

\* the session manager as constructed, its cleanup thread started
SMStart ==
    /\ sessions = EmptyRegistry
    /\ sandboxes = [i \in Ids |-> NoSandbox]
    /\ lock = NoThread
    /\ stop_cleanup = FALSE
    /\ threads = [t \in Threads |-> IdleThread]
    /\ stopper = "idle"
    /\ clock = 0
    /\ smRet = NoSMReturn
    /\ next_id = 1

\* no session manager has been constructed
SMIdle ==
    /\ sessions = EmptyRegistry
    /\ sandboxes = [i \in {} |-> NoSandbox]
    /\ lock = NoThread
    /\ stop_cleanup = FALSE
    /\ threads = [t \in {} |-> IdleThread]
    /\ stopper = "idle"
    /\ clock = 0
    /\ smRet = [op |-> "none"]
    /\ next_id = 1
    /\ sweeper = "done"
    /\ smCallsLeft = 0
    /\ smTicksLeft = 0

SMFrame == UNCHANGED <<lbVars, cbVars, extVars>>

\* The caller threads are interchangeable: a call is made by the first of
\* them that is outside the manager.
MayCall(t) ==
    /\ threads[t].pc = "idle"
    /\ t = "t1" \/ threads["t1"].pc # "idle"

\* create_session is called by thread t, which takes the lock (line 128)
CreateSession(t) ==
    /\ MayCall(t)
    /\ next_id <= MaxCreated
    /\ can_acquire(t)
    /\ lock' = t
    /\ threads' = [threads EXCEPT ![t].pc = "create_check"]
    /\ smRet' = NoSMReturn
    /\ UNCHANGED <<sessions, sandboxes, stop_cleanup, sweeper, stopper,
                   clock, next_id, smCallsLeft, smTicksLeft>>
    /\ SMFrame

\* the session limit (lines 130 to 138): at the limit the expired sessions
\* are cleaned up, and RuntimeError is raised when the registry is still at
\* the limit
CreateCheck(t) ==
    /\ threads[t].pc = "create_check"
    /\ LET full == Cardinality(DOMAIN sessions) >= sm_max_sessions
           c == IF full THEN cleanup_expired(sessions, sandboxes, clock)
                ELSE [sessions |-> sessions, sandboxes |-> sandboxes]
       IN  /\ sessions' = c.sessions
           /\ sandboxes' = c.sandboxes
           /\ IF Cardinality(DOMAIN c.sessions) >= sm_max_sessions
              THEN /\ threads' = [threads EXCEPT ![t] = IdleThread]
                   /\ lock' = NoThread
                   /\ smRet' = SMReturn("create", 0, "limit_error",
                                        ErrorResult, sessions, sandboxes,
                         clock)
              ELSE /\ threads' = [threads EXCEPT ![t].pc = "create_provision",
                                                 ![t].before = sessions,
                                                 ![t].boxes = sandboxes,
                                                 ![t].at = clock]
                   /\ smRet' = NoSMReturn
                   /\ UNCHANGED lock
    /\ UNCHANGED <<stop_cleanup, sweeper, stopper, clock, next_id,
                   smCallsLeft, smTicksLeft>>
    /\ SMFrame

\* the sandbox is created and the session registered (lines 141 to 160), or
\* CodeSandbox() or sandbox.create() raises and the exception is raised
\* again (lines 162 to 165); the lock is released
CreateProvision(t, ok) ==
    /\ threads[t].pc = "create_provision"
    /\ IF ok
       THEN /\ sessions' = [i \in DOMAIN sessions \cup {next_id} |->
                               IF i = next_id THEN Session(clock)
                               ELSE sessions[i]]
            /\ sandboxes' = [sandboxes EXCEPT ![next_id].created = TRUE]
            /\ next_id' = next_id + 1
            /\ smRet' = SMReturn("create", next_id, "created", ErrorResult,
                                 threads[t].before, threads[t].boxes,
                                 threads[t].at)
       ELSE /\ smRet' = SMReturn("create", 0, "provision_error", ErrorResult,
                                 threads[t].before, threads[t].boxes,
                                 threads[t].at)
            /\ UNCHANGED <<sessions, sandboxes, next_id>>
    /\ threads' = [threads EXCEPT ![t] = IdleThread]
    /\ lock' = NoThread
    /\ UNCHANGED <<stop_cleanup, sweeper, stopper, clock, smCallsLeft,
                   smTicksLeft>>
    /\ SMFrame

\* get_session(i) called by thread t, the whole of it under the lock
GetSession(t, i) ==
    /\ MayCall(t)
    /\ smCallsLeft > 0
    /\ can_acquire(t)
    /\ smCallsLeft' = smCallsLeft - 1
    /\ LET g == get_session(sessions, sandboxes, i, clock)
       IN  /\ sessions' = g.sessions
           /\ sandboxes' = g.sandboxes
           /\ smRet' = SMReturn("get", i,
                                IF g.found THEN "session" ELSE "None",
                                ErrorResult, sessions, sandboxes,
                         clock)
    /\ UNCHANGED <<lock, stop_cleanup, threads, sweeper, stopper, clock,
                   next_id, smTicksLeft>>
    /\ SMFrame

\* execute_in_session(i) called by thread t, up to the call of run_code:
\* get_session under the lock, and the error result when it returns None
ExecuteInSession(t, i) ==
    /\ MayCall(t)
    /\ smCallsLeft > 0
    /\ can_acquire(t)
    /\ smCallsLeft' = smCallsLeft - 1
    /\ LET g == get_session(sessions, sandboxes, i, clock)
       IN  /\ sessions' = g.sessions
           /\ sandboxes' = g.sandboxes
           /\ IF g.found
              THEN /\ threads' = [threads EXCEPT ![t].pc = "run",
                                                 ![t].id = i,
                                                 ![t].before = sessions,
                                                 ![t].at = clock]
                   /\ smRet' = NoSMReturn
              ELSE /\ smRet' = SMReturn("execute", i, "no_session",
                                        ErrorResult, sessions, sandboxes,
                         clock)
                   /\ UNCHANGED threads
    /\ UNCHANGED <<lock, stop_cleanup, sweeper, stopper, clock, next_id,
                   smTicksLeft>>
    /\ SMFrame

\* session.sandbox.run_code, outside the lock, comes to o
ExecuteRun(t, o) ==
    /\ threads[t].pc = "run"
    /\ LET i == threads[t].id
       IN  /\ sandboxes' = [sandboxes EXCEPT
                               ![i] = sandbox_after_run(sandboxes[i], o)]
           /\ smRet' = [SMReturn("execute", i, "ran",
                                 execute_result(sandboxes[i], o),
                                 threads[t].before, sandboxes,
                                 threads[t].at)
                           EXCEPT !.ran = IF sandboxes[i].created THEN o
                                          ELSE [kind |-> "raises",
                                                value |-> Raised]]
    /\ threads' = [threads EXCEPT ![t] = IdleThread]
    /\ UNCHANGED <<sessions, lock, stop_cleanup, sweeper, stopper, clock,
                   next_id, smCallsLeft, smTicksLeft>>
    /\ SMFrame

\* destroy_session(i) called by thread t, the whole of it under the lock
DestroySession(t, i) ==
    /\ MayCall(t)
    /\ smCallsLeft > 0
    /\ can_acquire(t)
    /\ smCallsLeft' = smCallsLeft - 1
    /\ LET d == destroy_session_unlocked(sessions, sandboxes, i)
       IN  /\ sessions' = d.sessions
           /\ sandboxes' =
                  [d.sandboxes EXCEPT
                      ![i].destroy_calls =
                          IF i \in DOMAIN sessions \/ @ > 0 THEN @ + 1 ELSE @,
                      ![i].destroy_trues = IF d.ok THEN @ + 1 ELSE @]
           /\ smRet' = SMReturn("destroy", i,
                                IF d.ok THEN "True" ELSE "False",
                                ErrorResult, sessions, sandboxes,
                         clock)
    /\ UNCHANGED <<lock, stop_cleanup, threads, sweeper, stopper, clock,
                   next_id, smTicksLeft>>
    /\ SMFrame

\* the cleanup thread returns from _stop_cleanup.wait (line 320): the loop
\* ends when the event is set, otherwise the thread goes for the lock
SweepWake ==
    /\ sweeper = "wait"
    /\ sweeper' = IF stop_cleanup THEN "done" ELSE "lock"
    /\ smRet' = NoSMReturn
    /\ UNCHANGED <<sessions, sandboxes, lock, stop_cleanup, threads, stopper,
                   clock, next_id, smCallsLeft, smTicksLeft>>
    /\ SMFrame

\* a cleanup thread that takes the lock and cleans nothing up
SweepRun_idle ==
    /\ sweeper = "lock"
    /\ can_acquire("sweep")
    /\ sweeper' = "wait"
    /\ smRet' = SMReturn("sweep", 0, "swept", ErrorResult, sessions,
                         sandboxes, clock)
    /\ UNCHANGED <<sessions, sandboxes, lock, stop_cleanup, threads, stopper,
                   clock, next_id, smCallsLeft, smTicksLeft>>
    /\ SMFrame

\* the cleanup thread takes the lock and runs _cleanup_expired (lines 322
\* to 323), then waits again
SweepRun ==
    /\ sweeper = "lock"
    /\ can_acquire("sweep")
    /\ sessions' = cleanup_expired(sessions, sandboxes, clock).sessions
    /\ sandboxes' = cleanup_expired(sessions, sandboxes, clock).sandboxes
    /\ sweeper' = "wait"
    /\ smRet' = SMReturn("sweep", 0, "swept", ErrorResult, sessions, sandboxes,
                         clock)
    /\ UNCHANGED <<lock, stop_cleanup, threads, stopper, clock, next_id,
                   smCallsLeft, smTicksLeft>>
    /\ SMFrame

\* stop() sets the event (line 340)
StopSet ==
    /\ stopper = "idle"
    /\ stop_cleanup' = TRUE
    /\ stopper' = "join"
    /\ smRet' = NoSMReturn
    /\ UNCHANGED <<sessions, sandboxes, lock, threads, sweeper, clock,
                   next_id, smCallsLeft, smTicksLeft>>
    /\ SMFrame

\* join(timeout=5) returns because the cleanup thread has ended
StopJoined ==
    /\ stopper = "join"
    /\ sweeper = "done"
    /\ stopper' = "destroy"
    /\ smRet' = NoSMReturn
    /\ UNCHANGED <<sessions, sandboxes, lock, stop_cleanup, threads, sweeper,
                   clock, next_id, smCallsLeft, smTicksLeft>>
    /\ SMFrame

\* join(timeout=5) returns after five seconds with the cleanup thread
\* past its wait and kept waiting for the lock by a caller that holds it
\* in create_session (line 343; the thread is not looked at again)
StopJoinTimedOut ==
    /\ stopper = "join"
    /\ sweeper = "lock"
    /\ lock # NoThread
    /\ stopper' = "destroy"
    /\ smRet' = NoSMReturn
    /\ UNCHANGED <<sessions, sandboxes, lock, stop_cleanup, threads, sweeper,
                   clock, next_id, smCallsLeft, smTicksLeft>>
    /\ SMFrame

\* stop() destroys every session under the lock and returns (lines 346 to
\* 351)
StopDestroyAll ==
    /\ stopper = "destroy"
    /\ can_acquire("stop")
    /\ sessions' = destroy_each(sessions, sandboxes, DOMAIN sessions).sessions
    /\ sandboxes' = destroy_each(sessions, sandboxes, DOMAIN sessions).sandboxes
    /\ stopper' = "returned"
    /\ smRet' = SMReturn("stop", 0, "stopped", ErrorResult, sessions, sandboxes,
                         clock)
    /\ UNCHANGED <<lock, stop_cleanup, threads, sweeper, clock, next_id,
                   smCallsLeft, smTicksLeft>>
    /\ SMFrame

\* time passes: as long as the ttl of a session, or one second longer
SMTickSteps == {default_ttl, default_ttl + 1}

SMTick(d) ==
    /\ smTicksLeft > 0
    /\ smTicksLeft' = smTicksLeft - 1
    /\ clock' = clock + d
    /\ smRet' = NoSMReturn
    /\ UNCHANGED <<sessions, sandboxes, lock, stop_cleanup, threads, sweeper,
                   stopper, next_id, smCallsLeft>>
    /\ SMFrame

\* the steps of the calls and of the store serving them
CallStep ==
    \/ \E S \in SessionIds : GetPoolForSession(S)
    \/ \E k \in CallIds : GetAffinityReply(k)
    \/ \E k \in CallIds : SetAffinityStored(k)
    \/ \E k \in CallIds : SetAffinityExpireSet(k)
    \/ \E k \in CallIds : GetPoolReturn(k)
    \/ \E S \in SessionIds, P \in PoolNames : ReleaseSession(S, P)
    \/ \E k \in CallIds : ReleaseClearCache(k)
    \/ \E k \in CallIds : ReleaseReturn(k)
    \/ \E k \in CallIds : StoreServe(k)

\* Calls that overlap, on two pools as registered, and a store that can
\* fail; no health check runs and no time passes.
Init == InitOverlap /\ LBStart /\ CBInit /\ SMIdle /\ ExtIdle

Next ==
    \/ CallStep
    \/ \E k \in CallIds : StoreFail(k)

Spec == Init /\ [][Next]_vars

\* One call at a time on one pool, with health checks and the clock; the
\* store does not fail.
InitH == InitHealth /\ LBStart /\ CBInit /\ SMIdle /\ ExtIdle

NextH ==
    \/ CallStep
    \/ \E k \in CallIds : GetExpiredDeleted(k)
    \/ \E p \in PoolNames, o \in HealthOutcomes : CheckPoolHealth(p, o)
    \/ \E d \in TickSteps : Tick(d)

SpecHealth == InitH /\ [][NextH]_vars

\* the breaker on its own: the load balancer holds no call and does nothing
InitCB ==
    /\ CBInit
    /\ SMIdle
    /\ ExtIdle
    /\ LBStart
    /\ pools = [p \in PoolNames |-> PoolEndpoint(1, HEALTHY)]
    /\ circuit_breakers = [p \in PoolNames |-> CircuitBreaker]
    /\ redis_affinities = EmptyDict
    /\ callsLeft = 0
    /\ maxInFlight = 0
    /\ checksLeft = 0
    /\ ticksLeft = 0
    /\ failuresLeft = 0
    /\ peer = IdlePeer

NextCB ==
    \/ CBRecordSuccess /\ UNCHANGED <<lbVars, smVars, extVars>>
    \/ CBRecordFailure /\ UNCHANGED <<lbVars, smVars, extVars>>
    \/ CBCanExecute /\ UNCHANGED <<lbVars, smVars, extVars>>
    \/ CBTick /\ UNCHANGED <<lbVars, smVars, extVars>>

SpecCB == InitCB /\ [][NextCB]_vars

\* Calls on one session id that overlap, on two healthy pools; the store
\* does not fail, no health check runs and no time passes.
RaceSessions == {"s1"}

InitRaceLB ==
    /\ pools = [p \in PoolNames |-> PoolEndpoint(MaxCap, HEALTHY)]
    /\ circuit_breakers = [p \in PoolNames |-> CircuitBreaker]
    /\ redis_affinities = EmptyDict
    /\ callsLeft = MaxRaceCalls
    /\ maxInFlight = Cardinality(CallIds)
    /\ checksLeft = 0
    /\ ticksLeft = 0
    /\ failuresLeft = 0
    /\ peer = IdlePeer

InitRace == InitRaceLB /\ LBStart /\ CBInit /\ SMIdle /\ ExtIdle

NextRace ==
    \/ \E S \in RaceSessions : GetPoolForSession(S)
    \/ \E k \in CallIds : GetAffinityReply(k)
    \/ \E k \in CallIds : SetAffinityStored(k)
    \/ \E k \in CallIds : SetAffinityExpireSet(k)
    \/ \E k \in CallIds : GetPoolReturn(k)
    \/ \E S \in RaceSessions, P \in PoolNames : ReleaseSession(S, P)
    \/ \E k \in CallIds : ReleaseClearCache(k)
    \/ \E k \in CallIds : ReleaseReturn(k)
    \/ \E k \in CallIds : StoreServe(k)

SpecRace == InitRace /\ [][NextRace]_vars

(***************************************************************************)
(* A second instance on the same store.  It runs the same coroutines on    *)
(* its own cache, one call at a time; each step below is the store serving *)
(* the command the peer waits for, followed by the peer running to its     *)
(* next await.  The peer sees every registered pool healthy and free, and  *)
(* runs while the clock stands still, so no binding it reads has expired.  *)
(***************************************************************************)
PeerStep(q) ==
    /\ peer' = q
    /\ ret' = NoReturn
    /\ UNCHANGED <<pools, circuit_breakers, session_affinities, calls, now,
                   bound, last_set, budget>>
    /\ UNCHANGED otherVars

\* get_pool_for_session(S) on the peer up to its first await: a binding in
\* its cache is returned, otherwise the peer asks the store
PeerGetPoolForSession(S) ==
    /\ peer.pc = "idle"
    /\ peer.left > 0
    /\ IF S \in DOMAIN peer.cache
       THEN PeerStep([peer EXCEPT !.left = @ - 1])
       ELSE PeerStep([peer EXCEPT !.left = @ - 1, !.pc = "get_hget",
                                  !.sid = S])
    /\ UNCHANGED <<redis_affinities, redis_expire_at, peer_released>>

\* redis.hget is served to the peer: a binding found is cached and
\* returned, otherwise the peer selects pool P, caches the binding and
\* sends it to the store
PeerGetAffinityReply(P) ==
    /\ peer.pc = "get_hget"
    /\ IF peer.sid \in DOMAIN redis_affinities
       THEN /\ P = redis_affinities[peer.sid].pool_name
            /\ PeerStep([peer EXCEPT
                             !.cache = Put(@, peer.sid,
                                           redis_affinities[peer.sid]),
                             !.pc = "idle", !.sid = ""])
            /\ UNCHANGED peer_released
       ELSE /\ PeerStep([peer EXCEPT
                             !.cache = Put(@, peer.sid,
                                           SessionAffinity(P, now)),
                             !.pc = "set_hset", !.pool = P])
            /\ peer_released' = peer_released \ {peer.sid}
    /\ UNCHANGED <<redis_affinities, redis_expire_at>>

\* redis.hset is served to the peer
PeerSetAffinityStored ==
    /\ peer.pc = "set_hset"
    /\ redis_affinities' = Put(redis_affinities, peer.sid,
                               peer.cache[peer.sid])
    /\ PeerStep([peer EXCEPT !.pc = "set_expire"])
    /\ UNCHANGED <<redis_expire_at, peer_released>>

\* redis.expire is served to the peer, whose get_pool_for_session returns
PeerSetAffinityExpireSet ==
    /\ peer.pc = "set_expire"
    /\ redis_expire_at' = IF DOMAIN redis_affinities = {}
                          THEN -1 ELSE now + affinity_ttl
    /\ PeerStep([peer EXCEPT !.pc = "idle", !.sid = "", !.pool = ""])
    /\ UNCHANGED <<redis_affinities, peer_released>>

\* release_session(S, pool) on the peer up to redis.hdel: its cache entry
\* is deleted
PeerReleaseSession(S) ==
    /\ peer.pc = "idle"
    /\ peer.left > 0
    /\ PeerStep([peer EXCEPT !.left = @ - 1, !.pc = "rel_hdel", !.sid = S,
                             !.cache = Del(@, S)])
    /\ UNCHANGED <<redis_affinities, redis_expire_at, peer_released>>

\* redis.hdel is served to the peer, whose release_session returns
PeerReleaseReturn ==
    /\ peer.pc = "rel_hdel"
    /\ redis_affinities' = Del(redis_affinities, peer.sid)
    /\ redis_expire_at' = ExpiryAfterDel(redis_affinities')
    /\ peer_released' = peer_released \cup {peer.sid}
    /\ PeerStep([peer EXCEPT !.pc = "idle", !.sid = ""])

\* Two instances on one store and two healthy pools, each running one call
\* at a time on one session id; the store does not fail and no time
\* passes.
InitReplicasLB ==
    /\ pools = [p \in PoolNames |-> PoolEndpoint(MaxCap, HEALTHY)]
    /\ circuit_breakers = [p \in PoolNames |-> CircuitBreaker]
    /\ redis_affinities = EmptyDict
    /\ callsLeft = MaxReplicaCalls
    /\ maxInFlight = 1
    /\ checksLeft = 0
    /\ ticksLeft = 0
    /\ failuresLeft = 0
    /\ peer = [IdlePeer EXCEPT !.left = MaxReplicaCalls]

InitReplicas == InitReplicasLB /\ LBStart /\ CBInit /\ SMIdle /\ ExtIdle

NextReplicas ==
    \/ \E S \in RaceSessions : GetPoolForSession(S)
    \/ \E k \in CallIds : GetAffinityReply(k)
    \/ \E k \in CallIds : SetAffinityStored(k)
    \/ \E k \in CallIds : SetAffinityExpireSet(k)
    \/ \E k \in CallIds : GetPoolReturn(k)
    \/ \E S \in RaceSessions, P \in PoolNames : ReleaseSession(S, P)
    \/ \E k \in CallIds : ReleaseClearCache(k)
    \/ \E k \in CallIds : ReleaseReturn(k)
    \/ \E k \in CallIds : StoreServe(k)
    \/ \E S \in RaceSessions : PeerGetPoolForSession(S)
    \/ \E P \in PoolNames : PeerGetAffinityReply(P)
    \/ PeerSetAffinityStored
    \/ PeerSetAffinityExpireSet
    \/ \E S \in RaceSessions : PeerReleaseSession(S)
    \/ PeerReleaseReturn

SpecReplicas == InitReplicas /\ [][NextReplicas]_vars

\* The session manager with its cleanup thread, two caller threads and
\* the clock; the load balancer does nothing.
LBIdle ==
    /\ LBStart
    /\ pools = [p \in PoolNames |-> PoolEndpoint(1, HEALTHY)]
    /\ circuit_breakers = [p \in PoolNames |-> CircuitBreaker]
    /\ redis_affinities = EmptyDict
    /\ callsLeft = 0
    /\ maxInFlight = 0
    /\ checksLeft = 0
    /\ ticksLeft = 0
    /\ failuresLeft = 0
    /\ peer = IdlePeer

SMRunning ==
    /\ SMStart
    /\ sweeper = "wait"
    /\ smCallsLeft = MaxSMCalls
    /\ smTicksLeft = MaxSMTicks

InitSM == SMRunning /\ LBIdle /\ CBInit /\ ExtIdle

NextSM ==
    \/ \E t \in Threads : CreateSession(t)
    \/ \E t \in Threads : CreateCheck(t)
    \/ \E t \in Threads, ok \in BOOLEAN : CreateProvision(t, ok)
    \/ \E t \in Threads, i \in Ids : GetSession(t, i)
    \/ \E t \in Threads, i \in Ids : ExecuteInSession(t, i)
    \/ \E t \in Threads, o \in SandboxOutcomes : ExecuteRun(t, o)
    \/ \E t \in Threads, i \in Ids : DestroySession(t, i)
    \/ SweepWake
    \/ SweepRun
    \/ \E d \in SMTickSteps : SMTick(d)

SpecSM == InitSM /\ [][NextSM]_vars

\* The cleanup thread at work next to callers that create sessions and
\* look them up, with threads that go on: the cleanup thread leaves its
\* wait when the interval is over, and gets the lock when the lock is
\* free again and again; a caller that holds the lock in create_session
\* goes on to release it.  Callers need not call anything.
InitSweep == SMRunning /\ LBIdle /\ CBInit /\ ExtIdle

NextSweep ==
    \/ \E t \in Threads : CreateSession(t)
    \/ \E t \in Threads : CreateCheck(t)
    \/ \E t \in Threads, ok \in BOOLEAN : CreateProvision(t, ok)
    \/ \E t \in Threads, i \in Ids : GetSession(t, i)
    \/ SweepWake
    \/ SweepRun
    \/ \E d \in SMTickSteps : SMTick(d)

FairSM ==
    /\ WF_vars(SweepWake)
    /\ SF_vars(SweepRun)
    /\ \A t \in Threads : WF_vars(CreateCheck(t))
    /\ \A t \in Threads : WF_vars(\E ok \in BOOLEAN : CreateProvision(t, ok))

SpecSMFair == InitSweep /\ [][NextSweep]_vars /\ FairSM

\* The session manager with a call of stop().
InitStop == SMRunning /\ LBIdle /\ CBInit /\ ExtIdle

NextStop ==
    \/ \E t \in Threads : CreateSession(t)
    \/ \E t \in Threads : CreateCheck(t)
    \/ \E t \in Threads, ok \in BOOLEAN : CreateProvision(t, ok)
    \/ \E t \in Threads, i \in Ids : GetSession(t, i)
    \/ \E t \in Threads, i \in Ids : ExecuteInSession(t, i)
    \/ \E t \in Threads, o \in SandboxOutcomes : ExecuteRun(t, o)
    \/ \E t \in Threads, i \in Ids : DestroySession(t, i)
    \/ SweepWake
    \/ SweepRun
    \/ StopSet
    \/ StopJoined
    \/ StopJoinTimedOut
    \/ StopDestroyAll
    \/ \E d \in SMTickSteps : SMTick(d)

SpecStop == InitStop /\ [][NextStop]_vars

(***************************************************************************)
(* execute_in_session with run_code in two steps, the code starting and    *)
(* the code ending, next to the callers, the cleanup thread and stop().    *)
(* A thread at "running" is inside container.exec_run (sandbox.py, line    *)
(* 251), outside the lock of the manager.                                  *)
(***************************************************************************)
\* run_code is entered (session.py line 226; sandbox.py lines 136 to 160):
\* without a container it raises and execute_in_session returns the error
\* result, with one the command is started
RunCodeStart(t) ==
    /\ threads[t].pc = "run"
    /\ LET i == threads[t].id
       IN  IF sandboxes[i].created
           THEN /\ sandboxes' = [sandboxes EXCEPT ![i].runs = @ + 1]
                /\ threads' = [threads EXCEPT ![t].pc = "running"]
                /\ smRet' = NoSMReturn
           ELSE /\ smRet' = [SMReturn("execute", i, "ran", ErrorResult,
                                      threads[t].before, sandboxes,
                                      threads[t].at)
                                EXCEPT !.ran = [kind |-> "raises",
                                                value |-> Raised]]
                /\ threads' = [threads EXCEPT ![t] = IdleThread]
                /\ UNCHANGED sandboxes
    /\ UNCHANGED <<sessions, lock, stop_cleanup, sweeper, stopper, clock,
                   next_id, smCallsLeft, smTicksLeft>>
    /\ SMFrame

\* the command ends and execute_in_session returns (sandbox.py lines 250
\* to 262, 162 to 213; session.py lines 227 to 234): the command comes to
\* o, and on the timeout the sandbox destroys itself; a command whose
\* container was destroyed under it fails
RunCodeEnd(t, o) ==
    /\ threads[t].pc = "running"
    /\ LET i == threads[t].id
           gone == ~sandboxes[i].created
       IN  /\ sandboxes' =
                  IF ~gone /\ o.kind = "returns" /\ o.value.status = "timeout"
                  THEN [sandboxes EXCEPT ![i] = sandbox_destroy(@)]
                  ELSE sandboxes
           /\ smRet' = [SMReturn("execute", i, "ran",
                                 IF gone THEN ErrorResult
                                 ELSE execute_result(sandboxes[i], o),
                                 threads[t].before, sandboxes, threads[t].at)
                           EXCEPT !.ran = IF gone
                                          THEN [kind |-> "raises",
                                                value |-> Raised]
                                          ELSE o]
    /\ threads' = [threads EXCEPT ![t] = IdleThread]
    /\ UNCHANGED <<sessions, lock, stop_cleanup, sweeper, stopper, clock,
                   next_id, smCallsLeft, smTicksLeft>>
    /\ SMFrame

InitRun == SMRunning /\ LBIdle /\ CBInit /\ ExtIdle

NextRun ==
    \/ \E t \in Threads : CreateSession(t)
    \/ \E t \in Threads : CreateCheck(t)
    \/ \E t \in Threads, ok \in BOOLEAN : CreateProvision(t, ok)
    \/ \E t \in Threads, i \in Ids : ExecuteInSession(t, i)
    \/ \E t \in Threads : RunCodeStart(t)
    \/ \E t \in Threads, o \in SandboxOutcomes : RunCodeEnd(t, o)
    \/ \E t \in Threads, i \in Ids : DestroySession(t, i)
    \/ SweepWake
    \/ SweepRun
    \/ StopSet
    \/ StopJoined
    \/ StopJoinTimedOut
    \/ StopDestroyAll
    \/ \E d \in SMTickSteps : SMTick(d)

SpecRun == InitRun /\ [][NextRun]_vars

(***************************************************************************)
(* Paths of the file operations.  A path is the sequence of its            *)
(* characters: the separator, the dot, a word character, a character       *)
(* outside the allow-list, the null byte and the line feed.                *)
(***************************************************************************)
PathChars == {"/", ".", "a", "$", "NUL", "LF"}

Paths == UNION {[1..n -> PathChars] : n \in 1..MaxPathLen}

Dot == <<".">>
DotDot == <<".", ".">>

\* str.split('/')
RECURSIVE SplitPath(_)
SplitPath(p) ==
    IF p = <<>> THEN << <<>> >>
    ELSE LET r == SplitPath(Tail(p))
         IN  IF Head(p) = "/" THEN << <<>> >> \o r
             ELSE << <<Head(p)>> \o Head(r) >> \o Tail(r)

\* '/'.join
RECURSIVE JoinPath(_)
JoinPath(cs) ==
    IF cs = <<>> THEN <<>>
    ELSE IF Len(cs) = 1 THEN cs[1]
    ELSE cs[1] \o <<"/">> \o JoinPath(Tail(cs))

\* the loop of posixpath.normpath over the components
RECURSIVE norm_comps(_, _, _)
norm_comps(cs, new_comps, initial_slashes) ==
    IF cs = <<>> THEN new_comps
    ELSE LET comp == Head(cs)
         IN  IF comp = <<>> \/ comp = Dot
             THEN norm_comps(Tail(cs), new_comps, initial_slashes)
             ELSE IF \/ comp # DotDot
                     \/ initial_slashes = 0 /\ new_comps = <<>>
                     \/ new_comps # <<>> /\ new_comps[Len(new_comps)] = DotDot
             THEN norm_comps(Tail(cs), Append(new_comps, comp),
                             initial_slashes)
             ELSE IF new_comps # <<>>
             THEN norm_comps(Tail(cs),
                             SubSeq(new_comps, 1, Len(new_comps) - 1),
                             initial_slashes)
             ELSE norm_comps(Tail(cs), new_comps, initial_slashes)

\* os.path.normpath on a POSIX host
normpath(p) ==
    IF p = <<>> THEN Dot
    ELSE LET initial_slashes ==
                 IF p[1] # "/" THEN 0
                 ELSE IF /\ Len(p) >= 2 /\ p[2] = "/"
                         /\ ~(Len(p) >= 3 /\ p[3] = "/")
                 THEN 2 ELSE 1
             joined == JoinPath(norm_comps(SplitPath(p), <<>>,
                                           initial_slashes))
             full == [i \in 1..initial_slashes |-> "/"] \o joined
         IN  IF full = <<>> THEN Dot ELSE full

\* str.lstrip('/')
RECURSIVE lstrip_slash(_)
lstrip_slash(p) ==
    IF p # <<>> /\ Head(p) = "/" THEN lstrip_slash(Tail(p)) ELSE p

\* '..' in a string
has_dotdot(p) == \E i \in 1..(Len(p) - 1) : p[i] = "." /\ p[i + 1] = "."

\* the path check of CodeSandbox.write_file and read_file
sandbox_path(path) ==
    LET safe_path == lstrip_slash(normpath(path))
    IN  [ok |-> ~(has_dotdot(safe_path)
                  \/ (safe_path # <<>> /\ Head(safe_path) = "/")),
         safe_path |-> safe_path]

\* str.strip(): of the characters here only the line feed is white space
RECURSIVE lstrip_space(_)
lstrip_space(p) ==
    IF p # <<>> /\ Head(p) = "LF" THEN lstrip_space(Tail(p)) ELSE p

RECURSIVE rstrip_space(_)
rstrip_space(p) ==
    IF p # <<>> /\ p[Len(p)] = "LF"
    THEN rstrip_space(SubSeq(p, 1, Len(p) - 1)) ELSE p

strip(p) == rstrip_space(lstrip_space(p))

\* PurePosixPath(p).is_absolute()
is_absolute(p) == p # <<>> /\ p[1] = "/"

\* PurePosixPath(p).parts without the root: empty components and '.' are
\* dropped, '..' is kept
path_parts(p) ==
    SelectSeq(SplitPath(p), LAMBDA c : c # <<>> /\ c # Dot)

\* SAFE_FILENAME_PATTERN.match(part): word characters, hyphens and dots,
\* and $ also matches before a line feed that ends the part
safe_filename(part) ==
    LET body == IF part # <<>> /\ part[Len(part)] = "LF"
                THEN SubSeq(part, 1, Len(part) - 1) ELSE part
    IN  /\ body # <<>>
        /\ \A i \in 1..Len(body) : body[i] \in {"a", "."}

\* SecurePathValidator.validate: rejected, or the sanitized relative path.
\* A relative path without '..' resolves inside the base directory, and no
\* name over these characters ends in a dangerous extension.
validate(path0) ==
    LET path == strip(path0)
        parts == path_parts(path)
        rejected ==
            \/ path0 = <<>>
            \/ \E i \in 1..Len(path) : path[i] = "NUL"
            \/ \E i \in 1..Len(parts) : parts[i] = DotDot
            \/ is_absolute(path)
            \/ \E i \in 1..Len(parts) : ~safe_filename(parts[i])
    IN  [ok |-> ~rejected,
         safe_path |-> IF parts = <<>> THEN Dot ELSE JoinPath(parts)]

(***************************************************************************)
(* One CodeSandbox (executor/sandbox.py).  A call on the container runtime *)
(* succeeds or raises; a call runs from its first line to its return.      *)
(***************************************************************************)
\* the languages _prepare_execution knows, after strip().lower()
SupportedLanguages ==
    {"python", "node", "javascript", "js", "r", "rscript", "bash", "sh",
     "shell", "go", "rust", "rs", "java", "cpp", "c++"}

supported(language) == language \in SupportedLanguages

\* languages a caller asks for
Languages == {"python", "go", "cobol", ""}

\* the source file _prepare_execution names
SourcePath == <<"a", ".", "a">>

\* the files argument of run_code: none, one good name, one refused name
RunFiles == { <<>>, << <<"a">> >>, << DotDot >> }

\* container.stop and container.remove in destroy
DestroyOutcomes == [stop : {"ok", "raises"}, remove : {"ok", "raises"}]
\* container.put_archive: true, false or an exception
PutOutcomes == {"true", "false", "raises"}
\* container.get_archive: an archive, nothing, or an exception
GetOutcomes == {"archive", "nothing", "raises"}
\* container.exec_run against the timeout
ExecOutcomes == {"exit0", "exit1", "timeout", "raises"}

\* destroy() that goes on to remove after a stop that raised: the mutant
CodeSandbox_destroy_removes(has, rt, d) ==
    IF ~has THEN [container |-> FALSE, runtime |-> rt, raised |-> FALSE]
    ELSE LET stopped == [rt EXCEPT !.stop_calls = @ + 1,
                                   !.running = IF d.stop = "ok" THEN FALSE
                                               ELSE @]
             removed == [stopped EXCEPT
                            !.remove_calls = @ + 1,
                            !.running = IF d.remove = "ok" THEN FALSE ELSE @,
                            !.removed = d.remove = "ok"]
         IN  [container |-> FALSE, runtime |-> removed, raised |-> FALSE]

\* CodeSandbox.destroy (lines 405 to 418): nothing without a handle; stop,
\* then remove unless stop raised; whatever is raised is logged; the handle
\* is cleared
CodeSandbox_destroy(has, rt, d) ==
    IF ~has THEN [container |-> FALSE, runtime |-> rt, raised |-> FALSE]
    ELSE LET stopped == [rt EXCEPT !.stop_calls = @ + 1,
                                   !.running = IF d.stop = "ok" THEN FALSE
                                               ELSE @]
             removed == [stopped EXCEPT
                            !.remove_calls = @ + 1,
                            !.running = IF d.remove = "ok" THEN FALSE ELSE @,
                            !.removed = d.remove = "ok"]
         IN  [container |-> FALSE,
              runtime |-> IF d.stop = "ok" THEN removed ELSE stopped,
              raised |-> FALSE]

\* CodeSandbox.write_file on a sandbox with a container (lines 278 to 307)
CodeSandbox_write_file(rt, path, put) ==
    IF ~sandbox_path(path).ok THEN [ok |-> FALSE, runtime |-> rt]
    ELSE [ok |-> put = "true",
          runtime |-> [rt EXCEPT !.put_calls = @ + 1]]

\* CodeSandbox.read_file on a sandbox with a container (lines 322 to 352)
CodeSandbox_read_file(rt, path, get) ==
    IF ~sandbox_path(path).ok THEN [ok |-> FALSE, runtime |-> rt]
    ELSE [ok |-> get = "archive",
          runtime |-> [rt EXCEPT !.get_calls = @ + 1]]

\* the uploads of run_code (lines 143 to 145), their results dropped
RECURSIVE upload_files(_, _, _)
upload_files(rt, files, put) ==
    IF files = <<>> THEN rt
    ELSE upload_files(CodeSandbox_write_file(rt, Head(files), put).runtime,
                      Tail(files), put)

\* CodeSandbox.run_code on a sandbox with a container (lines 139 to 213)
CodeSandbox_run_code(rt, language, files, put, exec, d) ==
    LET uploaded == upload_files(rt, files, put)
        source == CodeSandbox_write_file(uploaded, SourcePath, put)
        ran == [source.runtime EXCEPT !.exec_calls = @ + 1]
        timed == CodeSandbox_destroy(TRUE,
                                     [ran EXCEPT !.timeouts = @ + 1], d)
    IN  IF ~supported(language)
        THEN [result |-> "raised_value", container |-> TRUE,
              runtime |-> uploaded]
        ELSE IF ~source.ok
        THEN [result |-> "failed", container |-> TRUE,
              runtime |-> source.runtime]
        ELSE IF exec = "timeout"
        THEN [result |-> "timeout", container |-> timed.container,
              runtime |-> timed.runtime]
        ELSE [result |-> CASE exec = "exit0" -> "success"
                           [] exec = "exit1" -> "error"
                           [] OTHER -> "failed",
              container |-> TRUE, runtime |-> ran]

SBReturn(op, result, language, path, stop) ==
    [op |-> op, result |-> result, language |-> language, path |-> path,
     had |-> container, before |-> runtime, stop |-> stop]

SBFrame == UNCHANGED <<lbVars, cbVars, smVars, spVars, regVars>>

\* create() (lines 69 to 117): the container is started, or containers.run
\* raises, destroy() finds no handle and the exception goes to the caller
SBCreate(ok) ==
    /\ sbLeft > 0
    /\ ~container
    /\ ~runtime.created
    /\ sbLeft' = sbLeft - 1
    /\ IF ok
       THEN /\ container' = TRUE
            /\ runtime' = [runtime EXCEPT !.created = TRUE,
                                          !.running = TRUE]
            /\ sbRet' = SBReturn("create", "created", "", <<>>, "none")
       ELSE /\ container' = CodeSandbox_destroy(container, runtime,
                                  [stop |-> "ok", remove |-> "ok"]).container
            /\ runtime' = CodeSandbox_destroy(container, runtime,
                                  [stop |-> "ok", remove |-> "ok"]).runtime
            /\ sbRet' = SBReturn("create", "raised", "", <<>>, "none")
    /\ SBFrame

\* run_code: RuntimeError without a container (line 137)
SBRunCode(language, files, put, exec, d) ==
    /\ sbLeft > 0
    /\ sbLeft' = sbLeft - 1
    /\ IF ~container
       THEN /\ sbRet' = SBReturn("run_code", "raised_runtime", language,
                                 <<>>, "none")
            /\ UNCHANGED <<container, runtime>>
       ELSE LET r == CodeSandbox_run_code(runtime, language, files, put,
                                          exec, d)
            IN  /\ container' = r.container
                /\ runtime' = r.runtime
                /\ sbRet' = SBReturn("run_code", r.result, language,
                                     IF files = <<>> THEN <<>>
                                     ELSE Head(files),
                                     IF r.result = "timeout" THEN d.stop
                                     ELSE "none")
    /\ SBFrame

\* destroy()
SBDestroy(d) ==
    /\ sbLeft > 0
    /\ sbLeft' = sbLeft - 1
    /\ LET r == CodeSandbox_destroy(container, runtime, d)
       IN  /\ container' = r.container
           /\ runtime' = r.runtime
           /\ sbRet' = SBReturn("destroy",
                                IF r.raised THEN "raised" ELSE "returned",
                                "", <<>>,
                                IF container THEN d.stop ELSE "none")
    /\ SBFrame

\* write_file of the sandbox
SBWriteFile(path, put) ==
    /\ sbLeft > 0
    /\ container
    /\ sbLeft' = sbLeft - 1
    /\ LET r == CodeSandbox_write_file(runtime, path, put)
       IN  /\ runtime' = r.runtime
           /\ sbRet' = SBReturn("write_file",
                                IF r.ok THEN "true" ELSE "false",
                                "", path, "none")
    /\ UNCHANGED container
    /\ SBFrame

\* read_file of the sandbox
SBReadFile(path, get) ==
    /\ sbLeft > 0
    /\ container
    /\ sbLeft' = sbLeft - 1
    /\ LET r == CodeSandbox_read_file(runtime, path, get)
       IN  /\ runtime' = r.runtime
           /\ sbRet' = SBReturn("read_file",
                                IF r.ok THEN "content" ELSE "none",
                                "", path, "none")
    /\ UNCHANGED container
    /\ SBFrame

\* FileSystemManager.write_file (filesystem.py, lines 188 to 244): the
\* path is validated, the storage in use is asked of the container (an
\* exec), the archive is uploaded
FSWriteFile(path, put) ==
    /\ sbLeft > 0
    /\ runtime.running
    /\ sbLeft' = sbLeft - 1
    /\ IF ~validate(path).ok
       THEN /\ sbRet' = SBReturn("fs_write_file", "failure", "", path, "none")
            /\ UNCHANGED runtime
       ELSE /\ runtime' = [runtime EXCEPT !.exec_calls = @ + 1,
                                          !.put_calls = @ + 1]
            /\ sbRet' = SBReturn("fs_write_file",
                                 IF put = "true" THEN "success"
                                 ELSE "failure",
                                 "", path, "none")
    /\ UNCHANGED container
    /\ SBFrame

\* FileSystemManager.read_file (filesystem.py, lines 265 to 318)
FSReadFile(path, get) ==
    /\ sbLeft > 0
    /\ runtime.running
    /\ sbLeft' = sbLeft - 1
    /\ IF ~validate(path).ok
       THEN /\ sbRet' = SBReturn("fs_read_file", "failure", "", path, "none")
            /\ UNCHANGED runtime
       ELSE /\ runtime' = [runtime EXCEPT !.get_calls = @ + 1]
            /\ sbRet' = SBReturn("fs_read_file",
                                 IF get = "archive" THEN "success"
                                 ELSE "failure",
                                 "", path, "none")
    /\ UNCHANGED container
    /\ SBFrame

\* One sandbox from its construction: created, run, destroyed.
RestIdle == LBIdle /\ CBInit /\ SMIdle /\ SPIdle /\ RegIdle

InitSandbox ==
    /\ SBNew
    /\ sbLeft = MaxSBCalls
    /\ RestIdle

NextSandbox ==
    \/ \E ok \in BOOLEAN : SBCreate(ok)
    \/ \E language \in Languages, files \in RunFiles, put \in PutOutcomes,
          exec \in ExecOutcomes, d \in DestroyOutcomes :
           SBRunCode(language, files, put, exec, d)
    \/ \E d \in DestroyOutcomes : SBDestroy(d)

SpecSandbox == InitSandbox /\ [][NextSandbox]_vars

\* The file operations on a sandbox whose container runs, one path each.
InitPaths ==
    /\ container = TRUE
    /\ runtime = [NoRuntime EXCEPT !.created = TRUE, !.running = TRUE]
    /\ sbRet = NoSBReturn
    /\ sbLeft = MaxPathCalls
    /\ RestIdle

NextPaths ==
    \/ \E path \in Paths, put \in PutOutcomes : SBWriteFile(path, put)
    \/ \E path \in Paths, get \in GetOutcomes : SBReadFile(path, get)
    \/ \E path \in Paths, put \in PutOutcomes : FSWriteFile(path, put)
    \/ \E path \in Paths, get \in GetOutcomes : FSReadFile(path, get)

SpecPaths == InitPaths /\ [][NextPaths]_vars

(***************************************************************************)
(* The session persistence manager                                         *)
(* (k8s/controllers/session_persistence.py).  A coroutine runs from one    *)
(* await to the next without interruption; a store command takes effect    *)
(* at some moment after it was issued, or fails, and the coroutine goes on *)
(* at some moment after that.                                              *)
(***************************************************************************)
\* SessionState.to_dict (lines 65 to 79) and json: the files are left out
to_dict(state) == [state EXCEPT !.files = EmptyFiles]

\* json and SessionState.from_dict (lines 81 to 97): no files
from_dict(rec) == [rec EXCEPT !.files = EmptyFiles]

\* file contents a caller hands in: empty, small, of the greatest size
\* allowed, and too large
Contents ==
    { [data |-> "", size |-> 0], [data |-> "c1", size |-> 1],
      [data |-> "c2", size |-> sp_max_file_size],
      [data |-> "big", size |-> sp_max_file_size + 1] }

\* zlib.compress
compress(content) == StoredBytes(TRUE, content)

\* what a reader gets who takes zlib output for the content
ZlibBlob == [data |-> "zlib", size |-> 1]

\* zlib.decompress: raises on bytes that zlib did not write
decompress(bytes) ==
    IF bytes.z THEN [ok |-> TRUE, content |-> bytes.body]
    ELSE [ok |-> FALSE, content |-> NoContent]

\* add_file, lines 289 to 290
encode(content) ==
    IF compression_enabled THEN compress(content)
    ELSE StoredBytes(FALSE, content)

\* bytes as a reader sees them without decompressing
raw(bytes) == IF bytes.z THEN ZlibBlob ELSE bytes.body

\* bool(content) of bytes
truthy(bytes) == bytes.z \/ bytes.body.size > 0

\* get_file, lines 323 to 326 and 330 to 332: the content of stored bytes
decode(bytes, from_store) ==
    IF compression_enabled /\ (~from_store \/ truthy(bytes))
    THEN decompress(bytes)
    ELSE [ok |-> TRUE, content |-> raw(bytes)]

Command(kind, id, path, rec, ttl, content) ==
    [kind |-> kind, id |-> id, path |-> path, rec |-> rec, ttl |-> ttl,
     content |-> content]

Answer(found, rec, content, files) ==
    [kind |-> "ok", found |-> found, rec |-> rec, content |-> content,
     files |-> files]

ErrorAnswer == [NoAnswer EXCEPT !.kind = "error"]

StoredFiles(id) ==
    IF id \in DOMAIN sp_files THEN sp_files[id].entries ELSE EmptyFiles

\* the store carrying out a command: setex, set, get on the session
\* record; hset, expire, hget, hdel, hgetall on the hash of the files
StoreApply(c) ==
    CASE c.kind = "setex" ->
             [sessions |-> Put(sp_sessions, c.id,
                               [rec |-> c.rec, ttl |-> c.ttl]),
              files |-> sp_files,
              answer |-> Answer(FALSE, NoState, NoBytes, EmptyFiles)]
      [] c.kind = "set" ->
             [sessions |-> Put(sp_sessions, c.id,
                               [rec |-> c.rec, ttl |-> 0]),
              files |-> sp_files,
              answer |-> Answer(FALSE, NoState, NoBytes, EmptyFiles)]
      [] c.kind = "get" ->
             [sessions |-> sp_sessions, files |-> sp_files,
              answer |-> IF c.id \in DOMAIN sp_sessions
                         THEN Answer(TRUE, sp_sessions[c.id].rec, NoBytes,
                                     EmptyFiles)
                         ELSE Answer(FALSE, NoState, NoBytes, EmptyFiles)]
      [] c.kind = "hset" ->
             [sessions |-> sp_sessions,
              files |-> Put(sp_files, c.id,
                            [entries |-> Put(StoredFiles(c.id), c.path,
                                             c.content),
                             ttl |-> IF c.id \in DOMAIN sp_files
                                     THEN sp_files[c.id].ttl ELSE 0]),
              answer |-> Answer(FALSE, NoState, NoBytes, EmptyFiles)]
      [] c.kind = "expire" ->
             [sessions |-> sp_sessions,
              files |-> IF c.id \in DOMAIN sp_files
                        THEN [sp_files EXCEPT ![c.id].ttl = files_ttl]
                        ELSE sp_files,
              answer |-> Answer(FALSE, NoState, NoBytes, EmptyFiles)]
      [] c.kind = "hget" ->
             [sessions |-> sp_sessions, files |-> sp_files,
              answer |-> IF c.path \in DOMAIN StoredFiles(c.id)
                         THEN Answer(TRUE, NoState,
                                     StoredFiles(c.id)[c.path], EmptyFiles)
                         ELSE Answer(FALSE, NoState, NoBytes, EmptyFiles)]
      [] c.kind = "hdel" ->
             [sessions |-> sp_sessions,
              files |-> IF DOMAIN StoredFiles(c.id) \subseteq {c.path}
                        THEN Del(sp_files, c.id)
                        ELSE [sp_files EXCEPT
                                 ![c.id].entries = Del(@, c.path)],
              answer |-> Answer(FALSE, NoState, NoBytes, EmptyFiles)]
      [] c.kind = "delete" ->
             [sessions |-> Del(sp_sessions, c.id),
              files |-> Del(sp_files, c.id),
              answer |-> Answer(FALSE, NoState, NoBytes, EmptyFiles)]
      [] OTHER ->
             [sessions |-> sp_sessions, files |-> sp_files,
              answer |-> Answer(c.id \in DOMAIN sp_files, NoState, NoBytes,
                                StoredFiles(c.id))]

\* what the calls on a manager other than delete_session leave alone
DeleteFrame ==
    UNCHANGED <<lbVars, cbVars, smVars, sbVars, regVars, compression_enabled>>

SPFrame == DeleteFrame /\ UNCHANGED sp_deleted

\* a step inside a manager leaves the store alone
Local == UNCHANGED <<sp_sessions, sp_files>>

SPAwait(task, stage, command) ==
    [task EXCEPT !.pc = "wait", !.stage = stage, !.pending = command,
                 !.reply = NoAnswer]

Cached(m, id) == id \in DOMAIN active_sessions[m]

\* a call is made on a running manager that serves no other call
SPCall(m) ==
    /\ req[m].pc = "idle"
    /\ sp_running[m]
    /\ spLeft.calls > 0
    /\ spLeft' = [spLeft EXCEPT !.calls = @ - 1]

NewTask(m, op, id) ==
    [IdleTask EXCEPT !.op = op, !.id = id, !.before = active_sessions[m]]

SPReturn(m, task, result, state, content, from) ==
    [op |-> task.op, m |-> m, result |-> result, state |-> state,
     content |-> content, from |-> from, task |-> task]

Ready(m, op, stage) ==
    /\ req[m].op = op
    /\ req[m].pc = "ready"
    /\ req[m].stage = stage

Found(task) == task.reply.kind = "ok" /\ task.reply.found

\* the store serves the command a coroutine waits for; which is "req" or
\* "snap"; a snapshot task cancelled while it waited is gone afterwards
SPServe(m, which) ==
    LET task == IF which = "req" THEN req[m] ELSE snap[m]
        r == StoreApply(task.pending)
        served == [task EXCEPT !.pc = IF task.pc = "wait" THEN "ready"
                                      ELSE "done",
                               !.reply = r.answer,
                               !.pending = NoCommand,
                               !.present = task.pending.id
                                               \in DOMAIN sp_sessions,
                               !.held = StoredFiles(task.pending.id)]
    IN  /\ task.pc \in {"wait", "orphan"}
        /\ sp_sessions' = r.sessions
        /\ sp_files' = r.files
        /\ IF which = "req"
           THEN req' = [req EXCEPT ![m] = served] /\ UNCHANGED snap
           ELSE snap' = [snap EXCEPT ![m] = served] /\ UNCHANGED req
        /\ spRet' = NoSPReturn
        /\ UNCHANGED <<active_sessions, sp_running, spNow, spLeft>>
        /\ SPFrame

\* the command raises instead
SPServeFail(m, which) ==
    LET task == IF which = "req" THEN req[m] ELSE snap[m]
        failed == [task EXCEPT !.pc = "ready", !.reply = ErrorAnswer,
                               !.pending = NoCommand,
                               !.present = task.pending.id
                                               \in DOMAIN sp_sessions,
                               !.held = StoredFiles(task.pending.id)]
    IN  /\ task.pc = "wait"
        /\ spLeft.failures > 0
        /\ spLeft' = [spLeft EXCEPT !.failures = @ - 1]
        /\ IF which = "req"
           THEN req' = [req EXCEPT ![m] = failed] /\ UNCHANGED snap
           ELSE snap' = [snap EXCEPT ![m] = failed] /\ UNCHANGED req
        /\ spRet' = NoSPReturn
        /\ UNCHANGED <<active_sessions, sp_running, spNow>>
        /\ Local
        /\ SPFrame

\* create_session (lines 187 to 204): the state is built and cached, then
\* written with its time-to-live
SPCreateSession(m, id, pool_name, pod_name, ttl) ==
    /\ SPCall(m)
    /\ LET state == SessionState(pool_name, pod_name, spNow)
       IN  /\ active_sessions' =
                  [active_sessions EXCEPT ![m] = Put(@, id, state)]
           /\ req' = [req EXCEPT ![m] =
                  SPAwait([NewTask(m, "create", id) EXCEPT
                            !.state = state, !.ttl = ttl, !.wrote = TRUE],
                        "setex",
                        Command("setex", id, "", to_dict(state), ttl,
                                NoBytes))]
    /\ spRet' = NoSPReturn
    /\ UNCHANGED <<sp_running, snap, spNow>>
    /\ Local
    /\ SPFrame

\* create_session returns the state (line 207); an exception of the store
\* was logged by _save_session (line 513)
SPCreateReturn(m) ==
    /\ Ready(m, "create", "setex")
    /\ spRet' = SPReturn(m, [req[m] EXCEPT
                                !.stored = req[m].reply.kind = "ok"],
                         "state", req[m].state, NoContent, "none")
    /\ req' = [req EXCEPT ![m] = IdleTask]
    /\ UNCHANGED <<active_sessions, sp_running, snap, spNow, spLeft>>
    /\ Local
    /\ SPFrame

\* get_session (lines 216 to 220): the cached state, or a load
SPGetSession(m, id) ==
    /\ SPCall(m)
    /\ IF Cached(m, id)
       THEN /\ spRet' = SPReturn(m, NewTask(m, "get", id), "state",
                                 active_sessions[m][id], NoContent, "cache")
            /\ UNCHANGED req
       ELSE /\ req' = [req EXCEPT ![m] =
                   SPAwait(NewTask(m, "get", id), "get",
                         Command("get", id, "", NoState, 0, NoBytes))]
            /\ spRet' = NoSPReturn
    /\ UNCHANGED <<active_sessions, sp_running, snap, spNow>>
    /\ Local
    /\ SPFrame

\* _load_session (lines 517 to 527): the record, or None when there is
\* none or the store raised
SPGetReturn(m) ==
    /\ Ready(m, "get", "get")
    /\ spRet' = IF Found(req[m])
                THEN SPReturn(m, req[m], "state",
                              from_dict(req[m].reply.rec), NoContent,
                              "store")
                ELSE SPReturn(m, req[m], "none", NoState, NoContent,
                              "store")
    /\ req' = [req EXCEPT ![m] = IdleTask]
    /\ UNCHANGED <<active_sessions, sp_running, snap, spNow, spLeft>>
    /\ Local
    /\ SPFrame

\* update_session (lines 245 to 253) on the state get_session gave
updated(state, environment) ==
    [state EXCEPT !.environment = environment, !.last_activity = spNow]

SPUpdateSession(m, id, environment) ==
    /\ SPCall(m)
    /\ IF Cached(m, id)
       THEN /\ active_sessions' =
                   [active_sessions EXCEPT
                       ![m][id] = updated(@, environment)]
            /\ spRet' = SPReturn(m, NewTask(m, "update", id), "true",
                                 updated(active_sessions[m][id],
                                         environment),
                                 NoContent, "cache")
            /\ UNCHANGED req
       ELSE /\ req' = [req EXCEPT ![m] =
                   SPAwait([NewTask(m, "update", id) EXCEPT
                             !.new_pool = environment],
                         "get",
                         Command("get", id, "", NoState, 0, NoBytes))]
            /\ spRet' = NoSPReturn
            /\ UNCHANGED active_sessions
    /\ UNCHANGED <<sp_running, snap, spNow>>
    /\ Local
    /\ SPFrame

SPUpdateResume(m) ==
    /\ Ready(m, "update", "get")
    /\ IF Found(req[m])
       THEN LET state == updated(from_dict(req[m].reply.rec),
                                 req[m].new_pool)
            IN  /\ active_sessions' =
                       [active_sessions EXCEPT
                           ![m] = Put(@, req[m].id, state)]
                /\ spRet' = SPReturn(m, req[m], "true", state, NoContent,
                                     "store")
       ELSE /\ spRet' = SPReturn(m, req[m], "false", NoState, NoContent,
                                 "store")
            /\ UNCHANGED active_sessions
    /\ req' = [req EXCEPT ![m] = IdleTask]
    /\ UNCHANGED <<sp_running, snap, spNow, spLeft>>
    /\ Local
    /\ SPFrame

\* add_file (lines 280 to 296): refused when too large; the cached state
\* takes the bytes at once, a state loaded for the call is dropped after
SPAddFile(m, id, path, content) ==
    /\ SPCall(m)
    /\ LET task == [NewTask(m, "add_file", id) EXCEPT
                       !.path = path, !.given = content,
                       !.content = encode(content)]
       IN  IF content.size > sp_max_file_size
           THEN /\ spRet' = SPReturn(m, task, "false", NoState, NoContent,
                                     "none")
                /\ UNCHANGED <<req, active_sessions>>
           ELSE IF Cached(m, id)
           THEN /\ active_sessions' =
                       [active_sessions EXCEPT
                           ![m][id].files = Put(@, path, encode(content)),
                           ![m][id].last_activity = spNow]
                /\ req' = [req EXCEPT ![m] =
                       SPAwait([task EXCEPT !.wrote = TRUE], "hset",
                             Command("hset", id, path, NoState, 0,
                                     encode(content)))]
                /\ spRet' = NoSPReturn
           ELSE /\ req' = [req EXCEPT ![m] =
                       SPAwait(task, "get",
                             Command("get", id, "", NoState, 0, NoBytes))]
                /\ spRet' = NoSPReturn
                /\ UNCHANGED active_sessions
    /\ UNCHANGED <<sp_running, snap, spNow>>
    /\ Local
    /\ SPFrame

\* add_file after get_session loaded the state, or found none
SPAddFileLoaded(m) ==
    /\ Ready(m, "add_file", "get")
    /\ IF Found(req[m])
       THEN /\ req' = [req EXCEPT ![m] =
                   SPAwait([req[m] EXCEPT !.wrote = TRUE], "hset",
                         Command("hset", req[m].id, req[m].path, NoState, 0,
                                 req[m].content))]
            /\ spRet' = NoSPReturn
       ELSE /\ spRet' = SPReturn(m, req[m], "false", NoState, NoContent,
                                 "none")
            /\ req' = [req EXCEPT ![m] = IdleTask]
    /\ UNCHANGED <<active_sessions, sp_running, snap, spNow, spLeft>>
    /\ Local
    /\ SPFrame

\* _save_file (lines 531 to 539): after the hset the expiry of the hash is
\* set; an exception of the hset is logged and add_file returns True
SPAddFileStored(m) ==
    /\ Ready(m, "add_file", "hset")
    /\ IF req[m].reply.kind = "ok"
       THEN /\ req' = [req EXCEPT ![m] =
                   SPAwait(req[m], "expire",
                         Command("expire", req[m].id, "", NoState,
                                 files_ttl, NoBytes))]
            /\ spRet' = NoSPReturn
       ELSE /\ spRet' = SPReturn(m, [req[m] EXCEPT !.stored = FALSE],
                                 "true", NoState, NoContent, "none")
            /\ req' = [req EXCEPT ![m] = IdleTask]
    /\ UNCHANGED <<active_sessions, sp_running, snap, spNow, spLeft>>
    /\ Local
    /\ SPFrame

SPAddFileReturn(m) ==
    /\ Ready(m, "add_file", "expire")
    /\ spRet' = SPReturn(m, req[m], "true", NoState, NoContent, "none")
    /\ req' = [req EXCEPT ![m] = IdleTask]
    /\ UNCHANGED <<active_sessions, sp_running, snap, spNow, spLeft>>
    /\ Local
    /\ SPFrame

\* what get_file returns for stored bytes: the content, or None when
\* decompressing raised (lines 334 to 336)
FileReturn(m, task, bytes, from) ==
    LET d == decode(bytes, from = "store")
    IN  IF d.ok
        THEN SPReturn(m, task, "content", NoState, d.content, from)
        ELSE SPReturn(m, task, "none", NoState, NoContent, from)

\* get_file (lines 321 to 332): the cached bytes, or a load
SPGetFile(m, id, path) ==
    /\ SPCall(m)
    /\ LET task == [NewTask(m, "get_file", id) EXCEPT !.path = path]
       IN  IF Cached(m, id) /\ path \in DOMAIN active_sessions[m][id].files
           THEN /\ spRet' = FileReturn(m, task,
                                       active_sessions[m][id].files[path],
                                       "cache")
                /\ UNCHANGED req
           ELSE /\ req' = [req EXCEPT ![m] =
                       SPAwait(task, "hget",
                             Command("hget", id, path, NoState, 0,
                                     NoBytes))]
                /\ spRet' = NoSPReturn
    /\ UNCHANGED <<active_sessions, sp_running, snap, spNow>>
    /\ Local
    /\ SPFrame

SPGetFileReturn(m) ==
    /\ Ready(m, "get_file", "hget")
    /\ spRet' = IF Found(req[m])
                THEN FileReturn(m, req[m], req[m].reply.content, "store")
                ELSE SPReturn(m, req[m], "none", NoState, NoContent,
                              "store")
    /\ req' = [req EXCEPT ![m] = IdleTask]
    /\ UNCHANGED <<active_sessions, sp_running, snap, spNow, spLeft>>
    /\ Local
    /\ SPFrame

\* delete_file (lines 341 to 345)
SPDeleteFile(m, id, path) ==
    /\ SPCall(m)
    /\ active_sessions' =
           IF Cached(m, id) /\ path \in DOMAIN active_sessions[m][id].files
           THEN [active_sessions EXCEPT ![m][id].files = Del(@, path)]
           ELSE active_sessions
    /\ req' = [req EXCEPT ![m] =
           SPAwait([NewTask(m, "delete_file", id) EXCEPT
                     !.path = path, !.wrote = TRUE],
                 "hdel", Command("hdel", id, path, NoState, 0, NoBytes))]
    /\ spRet' = NoSPReturn
    /\ UNCHANGED <<sp_running, snap, spNow>>
    /\ Local
    /\ SPFrame

SPDeleteFileReturn(m) ==
    /\ Ready(m, "delete_file", "hdel")
    /\ spRet' = SPReturn(m, [req[m] EXCEPT
                                !.stored = req[m].reply.kind = "ok"],
                         IF req[m].reply.kind = "ok" THEN "true"
                         ELSE "false",
                         NoState, NoContent, "none")
    /\ req' = [req EXCEPT ![m] = IdleTask]
    /\ UNCHANGED <<active_sessions, sp_running, snap, spNow, spLeft>>
    /\ Local
    /\ SPFrame

\* migrate_session (lines 375 to 383) on the state get_session gave
migrated(state, new_pod_name, new_pool_name) ==
    [state EXCEPT !.pod_name = new_pod_name,
                  !.pool_name = IF new_pool_name # "" THEN new_pool_name
                                ELSE @,
                  !.last_activity = spNow,
                  !.migrated_from = state.pod_name]

\* migrate_session (lines 370 to 389)
SPMigrateSession(m, id, new_pod_name, new_pool_name) ==
    /\ SPCall(m)
    /\ LET task == [NewTask(m, "migrate", id) EXCEPT
                       !.new_pod = new_pod_name,
                       !.new_pool = new_pool_name]
       IN  IF Cached(m, id)
           THEN LET state == migrated(active_sessions[m][id],
                                      new_pod_name, new_pool_name)
                IN  /\ active_sessions' =
                           [active_sessions EXCEPT ![m][id] = state]
                    /\ req' = [req EXCEPT ![m] =
                           SPAwait([task EXCEPT
                                     !.state = state, !.wrote = TRUE,
                                     !.old_pod =
                                         active_sessions[m][id].pod_name],
                                 "set",
                                 Command("set", id, "", to_dict(state), 0,
                                         NoBytes))]
           ELSE /\ req' = [req EXCEPT ![m] =
                       SPAwait(task, "get",
                             Command("get", id, "", NoState, 0, NoBytes))]
                /\ UNCHANGED active_sessions
    /\ spRet' = NoSPReturn
    /\ UNCHANGED <<sp_running, snap, spNow>>
    /\ Local
    /\ SPFrame

\* migrate_session after get_session loaded the state, or found none
SPMigrateLoaded(m) ==
    /\ Ready(m, "migrate", "get")
    /\ IF Found(req[m])
       THEN LET loaded == from_dict(req[m].reply.rec)
                state == migrated(loaded, req[m].new_pod, req[m].new_pool)
            IN  /\ active_sessions' =
                       [active_sessions EXCEPT
                           ![m] = Put(@, req[m].id, state)]
                /\ req' = [req EXCEPT ![m] =
                       SPAwait([req[m] EXCEPT
                                 !.state = state, !.wrote = TRUE,
                                 !.old_pod = loaded.pod_name],
                             "set",
                             Command("set", req[m].id, "", to_dict(state),
                                     0, NoBytes))]
                /\ spRet' = NoSPReturn
       ELSE /\ spRet' = SPReturn(m, req[m], "none", NoState, NoContent,
                                 "none")
            /\ req' = [req EXCEPT ![m] = IdleTask]
            /\ UNCHANGED active_sessions
    /\ UNCHANGED <<sp_running, snap, spNow, spLeft>>
    /\ Local
    /\ SPFrame

\* migrate_session returns the state (line 392); an exception of the store
\* was logged by _save_session
SPMigrateReturn(m) ==
    /\ Ready(m, "migrate", "set")
    /\ spRet' = SPReturn(m, [req[m] EXCEPT
                                !.stored = req[m].reply.kind = "ok"],
                         "state", req[m].state, NoContent, "none")
    /\ req' = [req EXCEPT ![m] = IdleTask]
    /\ UNCHANGED <<active_sessions, sp_running, snap, spNow, spLeft>>
    /\ Local
    /\ SPFrame

\* restore_session (line 414): the record is loaded whatever is cached
SPRestoreSession(m, id, new_pod_name) ==
    /\ SPCall(m)
    /\ req' = [req EXCEPT ![m] =
           SPAwait([NewTask(m, "restore", id) EXCEPT !.new_pod = new_pod_name],
                 "get", Command("get", id, "", NoState, 0, NoBytes))]
    /\ spRet' = NoSPReturn
    /\ UNCHANGED <<active_sessions, sp_running, snap, spNow>>
    /\ Local
    /\ SPFrame

\* restore_session that does not mark the state: the mutant of restored
restored_unmarked(rec, new_pod_name) ==
    [from_dict(rec) EXCEPT !.pod_name = new_pod_name,
                           !.last_activity = spNow]

\* restore_session, lines 420 to 423
restored(rec, new_pod_name) ==
    [from_dict(rec) EXCEPT !.pod_name = new_pod_name,
                           !.last_activity = spNow,
                           !.restored = TRUE]

\* restore_session (lines 415 to 429): None without a record; else the
\* state is marked and cached and the files are asked for
SPRestoreLoaded(m) ==
    /\ Ready(m, "restore", "get")
    /\ IF Found(req[m])
       THEN LET state == restored(req[m].reply.rec, req[m].new_pod)
            IN  /\ active_sessions' =
                       [active_sessions EXCEPT
                           ![m] = Put(@, req[m].id, state)]
                /\ req' = [req EXCEPT ![m] =
                       SPAwait([req[m] EXCEPT !.state = state], "hgetall",
                             Command("hgetall", req[m].id, "", NoState, 0,
                                     NoBytes))]
                /\ spRet' = NoSPReturn
       ELSE /\ spRet' = SPReturn(m, req[m], "none", NoState, NoContent,
                                 "none")
            /\ req' = [req EXCEPT ![m] = IdleTask]
            /\ UNCHANGED active_sessions
    /\ UNCHANGED <<sp_running, snap, spNow, spLeft>>
    /\ Local
    /\ SPFrame

\* restore_session, lines 429 to 432: the state takes the files
\* _load_all_files gave, none when the store raised (line 560)
SPRestoreReturn(m) ==
    /\ Ready(m, "restore", "hgetall")
    /\ LET files == IF req[m].reply.kind = "ok" THEN req[m].reply.files
                    ELSE EmptyFiles
           state == [req[m].state EXCEPT !.files = files]
       IN  /\ active_sessions' =
                  [active_sessions EXCEPT ![m][req[m].id] = state]
           /\ spRet' = SPReturn(m, [req[m] EXCEPT
                                       !.stored = req[m].reply.kind = "ok"],
                                "state", state, NoContent, "store")
    /\ req' = [req EXCEPT ![m] = IdleTask]
    /\ UNCHANGED <<sp_running, snap, spNow, spLeft>>
    /\ Local
    /\ SPFrame

\* the session _save_all_sessions writes next
NextSession(todo) == CHOOSE id \in todo : TRUE

SaveCommand(m, id) ==
    Command("set", id, "", to_dict(active_sessions[m][id]), 0, NoBytes)

\* _save_session(state) for a session of the list the flush took when it
\* started (line 576): the state object of the list, which is the cached
\* one unless the session was deleted from the cache since
SaveCaptured(m, task, id) ==
    IF id \in DOMAIN task.frozen
    THEN Command("set", id, "", to_dict(task.frozen[id]), 0, NoBytes)
    ELSE SaveCommand(m, id)

\* cancel() on the snapshot task: a command it had issued stays issued
cancelled(task) ==
    IF task.pc = "wait" THEN [task EXCEPT !.pc = "orphan"]
    ELSE IF task.pc = "orphan" THEN task
    ELSE [IdleTask EXCEPT !.pc = "done"]

\* the snapshot task wakes (line 566) and writes the first cached session
SnapshotWake(m) ==
    /\ snap[m].pc = "sleep"
    /\ spLeft.snaps > 0
    /\ spLeft' = [spLeft EXCEPT !.snaps = @ - 1]
    /\ LET todo == DOMAIN active_sessions[m]
       IN  snap' = [snap EXCEPT ![m] =
               IF todo = {}
               THEN [@ EXCEPT !.pc = IF sp_running[m] THEN "sleep"
                                     ELSE "done"]
               ELSE SPAwait([IdleTask EXCEPT
                              !.op = "snapshot",
                              !.id = NextSession(todo),
                              !.todo = todo \ {NextSession(todo)}],
                          "set", SaveCommand(m, NextSession(todo)))]
    /\ spRet' = NoSPReturn
    /\ UNCHANGED <<active_sessions, sp_running, req, spNow>>
    /\ Local
    /\ SPFrame

\* _save_all_sessions (lines 576 to 577) goes on to the next session of
\* its list, then the loop sleeps again or ends (line 564)
SnapshotNext(m) ==
    /\ snap[m].pc = "ready"
    /\ LET todo == snap[m].todo
       IN  snap' = [snap EXCEPT ![m] =
               IF todo = {}
               THEN [IdleTask EXCEPT !.pc = IF sp_running[m] THEN "sleep"
                                            ELSE "done"]
               ELSE SPAwait([@ EXCEPT !.id = NextSession(todo),
                                    !.todo = todo \ {NextSession(todo)}],
                          "set", SaveCaptured(m, snap[m], NextSession(todo)))]
    /\ spRet' = NoSPReturn
    /\ UNCHANGED <<active_sessions, sp_running, req, spNow, spLeft>>
    /\ Local
    /\ SPFrame

\* stop() (lines 147 to 160): _running is cleared and every cached session
\* written; with none cached the snapshot task is cancelled at once
SPStop(m) ==
    /\ SPCall(m)
    /\ sp_running' = [sp_running EXCEPT ![m] = FALSE]
    /\ LET todo == DOMAIN active_sessions[m]
           task == [NewTask(m, "stop", "") EXCEPT !.wrote = TRUE]
       IN  IF todo = {}
           THEN /\ snap' = [snap EXCEPT ![m] = cancelled(@)]
                /\ spRet' = SPReturn(m, task, "stopped", NoState, NoContent,
                                     "none")
                /\ UNCHANGED req
           ELSE /\ req' = [req EXCEPT ![m] =
                       SPAwait([task EXCEPT
                                 !.id = NextSession(todo),
                                 !.todo = todo \ {NextSession(todo)}],
                             "set", SaveCommand(m, NextSession(todo)))]
                /\ spRet' = NoSPReturn
                /\ UNCHANGED snap
    /\ UNCHANGED <<active_sessions, spNow>>
    /\ Local
    /\ SPFrame

\* stop() after a write of its flush: the next session, or the snapshot
\* task is cancelled, the connection closed and stop() returns
SPStopFlushed(m) ==
    /\ Ready(m, "stop", "set")
    /\ LET todo == req[m].todo
           task == [req[m] EXCEPT
                       !.stored = @ /\ req[m].reply.kind = "ok"]
       IN  IF todo = {}
           THEN /\ snap' = [snap EXCEPT ![m] = cancelled(@)]
                /\ spRet' = SPReturn(m, task, "stopped", NoState, NoContent,
                                     "none")
                /\ req' = [req EXCEPT ![m] = IdleTask]
           ELSE /\ req' = [req EXCEPT ![m] =
                       SPAwait([task EXCEPT
                                 !.id = NextSession(todo),
                                 !.todo = todo \ {NextSession(todo)}],
                             "set", SaveCommand(m, NextSession(todo)))]
                /\ spRet' = NoSPReturn
                /\ UNCHANGED snap
    /\ UNCHANGED <<active_sessions, sp_running, spNow, spLeft>>
    /\ Local
    /\ SPFrame

\* a flush that took the session from the cache when it started keeps the
\* state object after delete_session has removed it from the cache
keep_captured(m, task, id) ==
    IF id \in task.todo /\ id \notin DOMAIN task.frozen /\ Cached(m, id)
    THEN [task EXCEPT !.frozen = Put(@, id, active_sessions[m][id])]
    ELSE task

\* delete_session (lines 438 to 449): the session leaves the cache, then
\* one pipeline deletes its record and its files from the store
SPDeleteSession(m, id) ==
    /\ SPCall(m)
    /\ active_sessions' = [active_sessions EXCEPT ![m] = Del(@, id)]
    /\ snap' = [snap EXCEPT ![m] = keep_captured(m, @, id)]
    /\ req' = [req EXCEPT ![m] =
           SPAwait(NewTask(m, "delete", id), "delete",
                   Command("delete", id, "", NoState, 0, NoBytes))]
    /\ spRet' = NoSPReturn
    /\ UNCHANGED <<sp_running, spNow, sp_deleted>>
    /\ Local
    /\ DeleteFrame

\* delete_session returns True (line 452), or False when the pipeline
\* failed (lines 454 to 456); sp_deleted notes the sessions deleted with
\* True and the calls that were left when delete_session returned
SPDeleteReturn(m) ==
    /\ Ready(m, "delete", "delete")
    /\ spRet' = SPReturn(m, [req[m] EXCEPT
                                !.stored = req[m].reply.kind = "ok"],
                         IF req[m].reply.kind = "ok" THEN "true" ELSE "false",
                         NoState, NoContent, "none")
    /\ sp_deleted' = IF req[m].reply.kind = "ok"
                     THEN Put(sp_deleted, req[m].id, spLeft.calls)
                     ELSE sp_deleted
    /\ req' = [req EXCEPT ![m] = IdleTask]
    /\ UNCHANGED <<active_sessions, sp_running, snap, spNow, spLeft>>
    /\ Local
    /\ DeleteFrame

\* time passes
SPTick ==
    /\ spLeft.ticks > 0
    /\ spLeft' = [spLeft EXCEPT !.ticks = @ - 1]
    /\ spNow' = spNow + 1
    /\ spRet' = NoSPReturn
    /\ UNCHANGED <<active_sessions, sp_running, req, snap>>
    /\ Local
    /\ SPFrame

Environments == {"e1"}

FullBudget ==
    [calls |-> MaxSPCalls, snaps |-> MaxSnapshots,
     failures |-> MaxSPFailures, ticks |-> MaxSPTicks]

\* two managers started on one empty store
InitPersist ==
    /\ LBIdle /\ CBInit /\ SMIdle /\ SBIdle /\ RegIdle
    /\ SPStart
    /\ compression_enabled \in BOOLEAN
    /\ spLeft = FullBudget

\* sessions: m1 creates them, m2 migrates them, both read them and the
\* snapshot tasks of both run
InitSessions == InitPersist /\ compression_enabled = TRUE

NextSessions ==
    \/ \E pod \in Pods :
          SPCreateSession("m1", "s1", "a", pod, 3600)
    \/ \E m \in SPManagers : SPCreateReturn(m)
    \/ \E m \in SPManagers : SPGetSession(m, "s1")
    \/ \E m \in SPManagers : SPGetReturn(m)
    \/ \E pod \in Pods, pool \in {"", "b"} :
          SPMigrateSession("m2", "s1", pod, pool)
    \/ \E m \in SPManagers : SPMigrateLoaded(m)
    \/ \E m \in SPManagers : SPMigrateReturn(m)
    \/ \E m \in SPManagers : SnapshotWake(m)
    \/ \E m \in SPManagers : SnapshotNext(m)
    \/ \E m \in SPManagers, which \in {"req", "snap"} : SPServe(m, which)
    \/ \E m \in SPManagers, which \in {"req", "snap"} : SPServeFail(m, which)
    \/ SPTick

SpecSessions == InitSessions /\ [][NextSessions]_vars

\* restoring: m1 creates a session and adds files, either manager
\* restores it and reads it
InitRestore == InitPersist /\ compression_enabled = TRUE

NextRestore ==
    \/ \E pod \in Pods : SPCreateSession("m1", "s1", "a", pod, 3600)
    \/ \E m \in SPManagers : SPCreateReturn(m)
    \/ \E c \in Contents : SPAddFile("m1", "s1", "f", c)
    \/ \E m \in SPManagers : SPAddFileLoaded(m)
    \/ \E m \in SPManagers : SPAddFileStored(m)
    \/ \E m \in SPManagers : SPAddFileReturn(m)
    \/ \E m \in SPManagers, pod \in Pods : SPRestoreSession(m, "s1", pod)
    \/ \E m \in SPManagers : SPRestoreLoaded(m)
    \/ \E m \in SPManagers : SPRestoreReturn(m)
    \/ \E m \in SPManagers : SPGetSession(m, "s1")
    \/ \E m \in SPManagers : SPGetReturn(m)
    \/ \E m \in SPManagers : SPServe(m, "req")
    \/ \E m \in SPManagers : SPServeFail(m, "req")

SpecRestore == InitRestore /\ [][NextRestore]_vars

\* snapshots and stop(): one manager changes its sessions while its
\* snapshot task runs, and is stopped
InitSnapshot == InitPersist /\ compression_enabled = TRUE

NextSnapshot ==
    \/ \E pod \in Pods : SPCreateSession("m1", "s1", "a", pod, 3600)
    \/ SPCreateReturn("m1")
    \/ \E e \in Environments : SPUpdateSession("m1", "s1", e)
    \/ SPUpdateResume("m1")
    \/ SPAddFile("m1", "s1", "f", [data |-> "c1", size |-> 1])
    \/ SPAddFileLoaded("m1")
    \/ SPAddFileStored("m1")
    \/ SPAddFileReturn("m1")
    \/ \E pod \in Pods : SPRestoreSession("m1", "s1", pod)
    \/ SPRestoreLoaded("m1")
    \/ SPRestoreReturn("m1")
    \/ SnapshotWake("m1")
    \/ SnapshotNext("m1")
    \/ SPStop("m1")
    \/ SPStopFlushed("m1")
    \/ \E which \in {"req", "snap"} : SPServe("m1", which)
    \/ \E which \in {"req", "snap"} : SPServeFail("m1", which)
    \/ SPTick

SpecSnapshot == InitSnapshot /\ [][NextSnapshot]_vars

\* one manager creates and deletes sessions while its snapshot task runs
DeleteIds == {"s1", "s2"}

InitDelete == InitPersist /\ compression_enabled = TRUE

NextDelete ==
    \/ \E id \in DeleteIds : SPCreateSession("m1", id, "a", "p1", 3600)
    \/ SPCreateReturn("m1")
    \/ \E id \in DeleteIds : SPDeleteSession("m1", id)
    \/ SPDeleteReturn("m1")
    \/ SnapshotWake("m1")
    \/ SnapshotNext("m1")
    \/ \E which \in {"req", "snap"} : SPServe("m1", which)
    \/ \E which \in {"req", "snap"} : SPServeFail("m1", which)

SpecDelete == InitDelete /\ [][NextDelete]_vars

\* no call is under way on any manager
SPQuiet == \A m \in SPManagers : req[m].pc = "idle"

\* files: m1 creates a session, both managers add, read and delete its
\* file, one call after the other, with compression on or off; m2 restores
InitFiles ==
    /\ LBIdle /\ CBInit /\ SMIdle /\ SBIdle /\ RegIdle
    /\ SPStart
    /\ compression_enabled \in BOOLEAN
    /\ spLeft = [FullBudget EXCEPT !.calls = MaxFileCalls]

\* the calls, made when no other call is under way
SeqCreateSession == SPQuiet /\ SPCreateSession("m1", "s1", "a", "p1", 3600)

SeqAddFile(m, c) == SPQuiet /\ SPAddFile(m, "s1", "f", c)

SeqGetFile(m) == SPQuiet /\ SPGetFile(m, "s1", "f")

SeqDeleteFile(m) == SPQuiet /\ SPDeleteFile(m, "s1", "f")

SeqRestoreSession == SPQuiet /\ SPRestoreSession("m2", "s1", "p2")

NextFiles ==
    \/ SeqCreateSession
    \/ \E m \in SPManagers : SPCreateReturn(m)
    \/ \E m \in SPManagers, c \in Contents : SeqAddFile(m, c)
    \/ \E m \in SPManagers : SPAddFileLoaded(m)
    \/ \E m \in SPManagers : SPAddFileStored(m)
    \/ \E m \in SPManagers : SPAddFileReturn(m)
    \/ \E m \in SPManagers : SeqGetFile(m)
    \/ \E m \in SPManagers : SPGetFileReturn(m)
    \/ \E m \in SPManagers : SeqDeleteFile(m)
    \/ \E m \in SPManagers : SPDeleteFileReturn(m)
    \/ SeqRestoreSession
    \/ \E m \in SPManagers : SPRestoreLoaded(m)
    \/ \E m \in SPManagers : SPRestoreReturn(m)
    \/ \E m \in SPManagers : SPServe(m, "req")
    \/ \E m \in SPManagers : SPServeFail(m, "req")

SpecFiles == InitFiles /\ [][NextFiles]_vars

(***************************************************************************)
(* register_pool, unregister_pool and _load_pools of the load balancer.    *)
(* Each runs without interruption up to its await on the store and goes on *)
(* when the store has answered.                                            *)
(***************************************************************************)
NoPools == [x \in {} |-> PoolEndpoint(1, HEALTHY)]
NoBreakers == [x \in {} |-> CircuitBreaker]

\* what the hash of the pools can hold when a load balancer starts: a
\* field per pool an earlier instance registered, some not valid JSON
PoolsAtStart ==
    UNION { [S -> {"json", "bad"}] : S \in SUBSET PoolNames }

\* unregister_pool, lines 270 to 273, on one of the two dicts
unregistered(d, name) == IF name \in DOMAIN d THEN Del(d, name) ELSE d

\* the fields of the hash that _load_pools can turn into a pool (lines
\* 200 to 202)
Loadable(fields) == {n \in DOMAIN fields : fields[n] = "json"}

\* _load_pools, line 204
load_pools(ps, fields) ==
    [n \in DOMAIN ps \cup Loadable(fields) |->
        IF n \in Loadable(fields) THEN PoolEndpoint(1, HEALTHY) ELSE ps[n]]

\* _load_pools that gives a loaded pool no breaker
load_breakers_none(cbs, fields) == cbs

\* _load_pools, lines 205 to 206: a breaker for a loaded pool that has none
load_breakers(cbs, fields) ==
    [n \in DOMAIN cbs \cup Loadable(fields) |->
        IF n \in DOMAIN cbs THEN cbs[n] ELSE CircuitBreaker]

\* what registration leaves alone
RegFrame ==
    UNCHANGED <<session_affinities, redis_affinities, redis_expire_at, calls,
                ret, now, bound, last_set, peer, peer_released, callsLeft,
                maxInFlight, checksLeft, ticksLeft, failuresLeft, cbVars,
                smVars, sbVars, spVars>>

RegCall(k) ==
    /\ pool_ops[k].pc = "idle"
    /\ regLeft.calls > 0
    /\ regLeft' = [regLeft EXCEPT !.calls = @ - 1]

\* register_pool (lines 241 to 258): the pool and a new breaker are
\* entered, then the pool is written to the store
RegisterPool(k, name, max_sessions) ==
    /\ RegCall(k)
    /\ pools' = Put(pools, name, PoolEndpoint(max_sessions, HEALTHY))
    /\ circuit_breakers' = Put(circuit_breakers, name, CircuitBreaker)
    /\ pool_ops' = [pool_ops EXCEPT ![k] =
           [IdleReg EXCEPT !.op = "register", !.pc = "wait", !.name = name,
                           !.max_sessions = max_sessions]]
    /\ UNCHANGED redis_pools
    /\ RegFrame

\* unregister_pool (lines 269 to 276): the pool and its breaker are
\* removed, then the field is deleted from the store
UnregisterPool(k, name) ==
    /\ RegCall(k)
    /\ pools' = unregistered(pools, name)
    /\ circuit_breakers' = unregistered(circuit_breakers, name)
    /\ pool_ops' = [pool_ops EXCEPT ![k] =
           [IdleReg EXCEPT !.op = "unregister", !.pc = "wait",
                           !.name = name]]
    /\ UNCHANGED redis_pools
    /\ RegFrame

\* _load_pools (line 196) asks the store for the hash
LoadPools(k) ==
    /\ RegCall(k)
    /\ pool_ops' = [pool_ops EXCEPT ![k] =
           [IdleReg EXCEPT !.op = "load", !.pc = "wait"]]
    /\ UNCHANGED <<pools, circuit_breakers, redis_pools>>
    /\ RegFrame

\* the store carries out hset, hdel or hgetall on the hash
RegStoreServe(k) ==
    /\ pool_ops[k].pc = "wait"
    /\ redis_pools' =
           CASE pool_ops[k].op = "register" -> Put(redis_pools, pool_ops[k].name, "json")
             [] pool_ops[k].op = "unregister" -> unregistered(redis_pools,
                                                         pool_ops[k].name)
             [] OTHER -> redis_pools
    /\ pool_ops' = [pool_ops EXCEPT ![k].pc = "ready",
                          ![k].reply = [kind |-> "ok",
                                        fields |-> redis_pools]]
    /\ UNCHANGED <<pools, circuit_breakers, regLeft>>
    /\ RegFrame

\* the command raises instead
RegStoreFail(k) ==
    /\ pool_ops[k].pc = "wait"
    /\ regLeft.failures > 0
    /\ regLeft' = [regLeft EXCEPT !.failures = @ - 1]
    /\ pool_ops' = [pool_ops EXCEPT ![k].pc = "ready",
                          ![k].reply = [kind |-> "error",
                                        fields |-> NoPoolsStored]]
    /\ UNCHANGED <<pools, circuit_breakers, redis_pools>>
    /\ RegFrame

\* register_pool and unregister_pool return True, or False after an
\* exception of the store (lines 260 to 265, 278 to 283)
RegReturn(k) ==
    /\ pool_ops[k].pc = "ready"
    /\ pool_ops[k].op \in {"register", "unregister"}
    /\ pool_ops' = [pool_ops EXCEPT ![k] = IdleReg]
    /\ UNCHANGED <<pools, circuit_breakers, redis_pools, regLeft>>
    /\ RegFrame

\* _load_pools (lines 198 to 215) enters the pools of the answer, each
\* with a breaker if it had none; after an exception it enters nothing
LoadPoolsApply(k) ==
    /\ pool_ops[k].pc = "ready"
    /\ pool_ops[k].op = "load"
    /\ IF pool_ops[k].reply.kind = "ok"
       THEN /\ pools' = load_pools(pools, pool_ops[k].reply.fields)
            /\ circuit_breakers' =
                   load_breakers(circuit_breakers, pool_ops[k].reply.fields)
       ELSE UNCHANGED <<pools, circuit_breakers>>
    /\ pool_ops' = [pool_ops EXCEPT ![k] = IdleReg]
    /\ UNCHANGED <<redis_pools, regLeft>>
    /\ RegFrame

\* a health check fails (lines 537 to 547) and the breaker of the pool
\* counts it
BreakerFailure(name) ==
    /\ name \in DOMAIN circuit_breakers
    /\ regLeft.breaker > 0
    /\ regLeft' = [regLeft EXCEPT !.breaker = @ - 1]
    /\ circuit_breakers' =
           [circuit_breakers EXCEPT ![name] = record_failure(@, now)]
    /\ UNCHANGED <<pools, redis_pools, pool_ops>>
    /\ RegFrame

\* a load balancer as constructed (lines 152 to 153), on a store that may
\* hold pools
InitRegistry ==
    /\ LBStart
    /\ pools = NoPools
    /\ circuit_breakers = NoBreakers
    /\ redis_affinities = EmptyDict
    /\ callsLeft = 0
    /\ maxInFlight = 0
    /\ checksLeft = 0
    /\ ticksLeft = 0
    /\ failuresLeft = 0
    /\ peer = IdlePeer
    /\ CBInit /\ SMIdle /\ SBIdle /\ SPIdle
    /\ redis_pools \in PoolsAtStart
    /\ pool_ops = [k \in RegTasks |-> IdleReg]
    /\ regLeft = [calls |-> MaxRegCalls, failures |-> MaxRegFailures,
                  breaker |-> MaxBreakerFailures]

NextRegistry ==
    \/ \E k \in RegTasks, name \in PoolNames : RegisterPool(k, name, 1)
    \/ \E k \in RegTasks, name \in PoolNames : UnregisterPool(k, name)
    \/ \E k \in RegTasks : LoadPools(k)
    \/ \E k \in RegTasks : RegStoreServe(k)
    \/ \E k \in RegTasks : RegStoreFail(k)
    \/ \E k \in RegTasks : RegReturn(k)
    \/ \E k \in RegTasks : LoadPoolsApply(k)
    \/ \E name \in PoolNames : BreakerFailure(name)

SpecRegistry == InitRegistry /\ [][NextRegistry]_vars

(***************************************************************************)
(* Fresh selection as a function of the registered pools:                  *)
(* _get_available_pools followed by _select_weighted_pool, with the value  *)
(* random.uniform or random.choice draws given as an input.  The pools     *)
(* carry the fields the ranking and the score read; scores are kept as     *)
(* integers, ScoreScale times the score of the code, which is exact for    *)
(* the capacities and response times drawn here.                           *)
(***************************************************************************)
\* the capacity a pool is registered with, when it is not 0
MaxSelCap == 1
\* the pools in the order they were registered, which is the order of the
\* dict
SelNames == <<"A", "B", "C", "D">>
\* weight and (status, response_time_ms) of a pool: the second pair is a
\* pool whose last health check timed out (lines 537 to 539)
SelWeights == {0, 1}
SelHealth == {<<HEALTHY, 0>>, <<DEGRADED, 5000>>}

\* the exception of a division by zero, in the place of its value
ZeroDivisionError == [raised |-> TRUE, num |-> 0, den |-> 0]
ScoreScale == MaxSelCap * 10 * 6

ScoredPool(weight, max_sessions, current_sessions, status, response_time_ms) ==
    [max_sessions |-> max_sessions, current_sessions |-> current_sessions,
     status |-> status, queue_depth |-> 0, weight |-> weight,
     priority |-> 1, response_time_ms |-> response_time_ms]

\* a / b of Python: a fraction, or the exception
TrueDiv(a, b) ==
    IF b = 0 THEN ZeroDivisionError
    ELSE [raised |-> FALSE, num |-> a, den |-> b]

\* list.sort on a list of n elements with integer keys: the indices in
\* ascending order of key, equal keys in their original order
StableOrder(n, key) ==
    LET place(i) == 1 + Cardinality({j \in 1..n :
                            key[j] < key[i] \/ (key[j] = key[i] /\ j < i)})
    IN  [p \in 1..n |-> CHOOSE i \in 1..n : place(i) = p]

\* _get_available_pools, lines 342 to 361: the pools that pass the four
\* checks, in the order of the dict
available_in_dict_order(ps, cbs, t) ==
    SelectSeq(SelNames,
              LAMBDA n : n \in DOMAIN ps /\ pool_is_available(ps[n], cbs[n], t))

\* the sort key of line 371 without the priority (the same for all pools)
rank_key(pl) == TrueDiv(pl.current_sessions, pl.max_sessions)

\* _get_available_pools, lines 342 to 373: the candidates sorted by
\* (priority, current_sessions / max_sessions), or the exception of a key
get_available_pools_ranked(ps, cbs, t) ==
    LET avail == available_in_dict_order(ps, cbs, t)
        n == Len(avail)
    IN  IF \E i \in 1..n : rank_key(ps[avail[i]]).raised
        THEN [raised |-> TRUE, list |-> <<>>]
        ELSE LET key == [i \in 1..n |->
                           ps[avail[i]].priority * (MaxSelCap + 1) * MaxSelCap
                           + rank_key(ps[avail[i]]).num
                             * (MaxSelCap \div rank_key(ps[avail[i]]).den)]
                 order == StableOrder(n, key)
             IN  [raised |-> FALSE,
                  list |-> [p \in 1..n |-> avail[order[p]]]]

\* line 384
utilization(pl) ==
    IF pl.max_sessions > 0
    THEN TrueDiv(pl.current_sessions, pl.max_sessions)
    ELSE [raised |-> FALSE, num |-> 1, den |-> 1]

\* lines 384 to 397, times ScoreScale
score(pl) ==
    LET u == utilization(pl)
        available_capacity == (u.den - u.num) * (MaxSelCap \div u.den)
        health_factor == IF pl.status = DEGRADED THEN 7 ELSE 10
        response_factor == IF pl.response_time_ms > 0
                           THEN 6000 \div (pl.response_time_ms + 1000)
                           ELSE 6
    IN  available_capacity * pl.weight * health_factor * response_factor

\* lines 381 to 401: the candidates by descending score
scores_sorted(ps, cands) ==
    LET n == Len(cands)
        order == StableOrder(n, [i \in 1..n |-> 0 - score(ps[cands[i]])])
    IN  [p \in 1..n |-> cands[order[p]]]

Min(a, b) == IF a <= b THEN a ELSE b

\* line 404 without the cut at three
top_pools_uncut(sorted) == sorted

\* line 404
top_pools(sorted) == SubSeq(sorted, 1, Min(3, Len(sorted)))

RECURSIVE SumScores(_, _)
SumScores(ps, s) ==
    IF s = <<>> THEN 0 ELSE score(ps[Head(s)]) + SumScores(ps, Tail(s))

\* lines 411 to 417: the first pool whose cumulative score reaches r, the
\* last one if there is none
RECURSIVE walk(_, _, _, _)
walk(ps, top, r, cumulative) ==
    IF Len(top) = 1 THEN Head(top)
    ELSE IF r <= cumulative + score(ps[Head(top)])
         THEN Head(top)
         ELSE walk(ps, Tail(top), r, cumulative + score(ps[Head(top)]))

\* _select_weighted_pool (lines 375 to 417) on a non-empty list; r is what
\* random.uniform(0, total_score) draws, u the index random.choice draws
select_weighted_pool_drawn(ps, cands, r, u) ==
    LET top == top_pools(scores_sorted(ps, cands))
        total_score == SumScores(ps, top)
    IN  IF total_score = 0 THEN top[u] ELSE walk(ps, top, r, 0)

\* What the two draws can be for a candidate list.  The walk compares r
\* with the cumulative scores only, so of the numbers between 0 and
\* total_score it is enough to draw the ends, each cumulative score and the
\* next number above it.
Draws(ps, cands) ==
    LET top == top_pools(scores_sorted(ps, cands))
        total_score == SumScores(ps, top)
        cumulative == {SumScores(ps, SubSeq(top, 1, i)) : i \in 1..Len(top)}
    IN  IF total_score = 0
        THEN {[r |-> 0, u |-> u] : u \in 1..Len(top)}
        ELSE {[r |-> r, u |-> 1] :
                 r \in {x \in {0, total_score} \cup cumulative
                                \cup {c + 1 : c \in cumulative} :
                            0 <= x /\ x <= total_score}}

\* lines 316 to 323 of get_pool_for_session: the outcome of a fresh
\* selection on the pools as they are, kept in ret with the candidates it
\* was made from and the pools the draws could have given (may)
FreshSelection ==
    LET ranked == get_available_pools_ranked(pools, circuit_breakers, now)
        cands == ranked.list
        may == {select_weighted_pool_drawn(pools, cands, d.r, d.u) :
                   d \in Draws(pools, cands)}
    IN  /\ ret.op = "none"
        /\ IF ranked.raised
           THEN ret' = [op |-> "select", raised |-> TRUE, candidates |-> <<>>,
                        pool |-> "None", may |-> {}]
           ELSE IF cands = <<>>
           THEN ret' = [op |-> "select", raised |-> FALSE,
                        candidates |-> <<>>, pool |-> "None", may |-> {}]
           ELSE \E p \in may :
                   ret' = [op |-> "select", raised |-> FALSE,
                           candidates |-> cands, pool |-> p, may |-> may]
        /\ UNCHANGED <<pools, circuit_breakers, session_affinities,
                       redis_affinities, redis_expire_at, calls, now, bound,
                       last_set, peer, peer_released, budget, otherVars>>

\* a pool as it can be when a session arrives
SelPools ==
    {p \in {ScoredPool(w, m, c, h[1], h[2]) :
                w \in SelWeights, m \in {0, MaxSelCap}, c \in 0..MaxSelCap,
                h \in SelHealth} :
        p.current_sessions <= p.max_sessions}

\* four pools registered with capacity 0 or MaxSelCap, any number of
\* sessions up to the capacity, closed breakers
InitSelect ==
    /\ LBStart
    /\ pools \in [{SelNames[i] : i \in 1..Len(SelNames)} -> SelPools]
    /\ circuit_breakers = [n \in DOMAIN pools |-> CircuitBreaker]
    /\ redis_affinities = EmptyDict
    /\ callsLeft = 0
    /\ maxInFlight = 0
    /\ checksLeft = 0
    /\ ticksLeft = 0
    /\ failuresLeft = 0
    /\ peer = IdlePeer
    /\ CBInit /\ SMIdle /\ ExtIdle

NextSelect == FreshSelection

SpecSelect == InitSelect /\ [][NextSelect]_vars

(***************************************************************************)
(* One instance on one pool that has room for two sessions: the calls run  *)
(* one after the other, a session is released with the pool it was last    *)
(* assigned, health checks run and time passes; the store does not fail    *)
(* and holds nothing at the start.                                         *)
(***************************************************************************)
\* max_sessions of the pool
CountCap == 2
\* invocations of get_pool_for_session and release_session
MaxCountCalls == 3

\* release_session(S, P) with P the pool S was last assigned
ReleaseAssigned(S) ==
    /\ last_set[S] # NullAffinity
    /\ ReleaseSession(S, last_set[S].pool_name)

InitCount ==
    /\ LBStart
    /\ pools = [p \in {"A"} |-> PoolEndpoint(CountCap, HEALTHY)]
    /\ circuit_breakers = [p \in {"A"} |-> CircuitBreaker]
    /\ redis_affinities = EmptyDict
    /\ callsLeft = MaxCountCalls
    /\ maxInFlight = 1
    /\ checksLeft = MaxChecks
    /\ ticksLeft = MaxTicks
    /\ failuresLeft = 0
    /\ peer = IdlePeer
    /\ CBInit /\ SMIdle /\ ExtIdle

NextCount ==
    \/ \E S \in SessionIds : GetPoolForSession(S)
    \/ \E k \in CallIds : GetAffinityReply(k)
    \/ \E k \in CallIds : GetExpiredDeleted(k)
    \/ \E k \in CallIds : SetAffinityStored(k)
    \/ \E k \in CallIds : SetAffinityExpireSet(k)
    \/ \E k \in CallIds : GetPoolReturn(k)
    \/ \E S \in SessionIds : ReleaseAssigned(S)
    \/ \E k \in CallIds : ReleaseClearCache(k)
    \/ \E k \in CallIds : ReleaseReturn(k)
    \/ \E k \in CallIds : StoreServe(k)
    \/ \E p \in PoolNames, o \in HealthOutcomes : CheckPoolHealth(p, o)
    \/ \E d \in TickSteps : Tick(d)

SpecCount == InitCount /\ [][NextCount]_vars

(***************************************************************************)
(* Recovery of a pool whose breaker has opened: one pool with one place,   *)
(* two sessions, health checks of which a bounded number fail, requests    *)
(* without end                                                             *)
(***************************************************************************)

MaxRecoverFails == 5
MaxRecoverTicks == 1
RecoverPools == {"A"}

\* what a health check of the run may find: 200 with or without a queue
\* over the ceiling or an overload, or another status
RecoverOutcomes ==
    {o \in HealthOutcomes :
        /\ o.kind \in {"200", "non_200"}
        /\ o.readable
        /\ o.queue_depth # queue_depth_ceiling}

\* the health check does not end in record_success (lines 514 to 547)
check_fails(o) == ~(o.kind = "200" /\ o.readable)

\* a health check may still fail: the clock of the run can still reach the
\* recovery timeout after it
MayFail ==
    /\ checksLeft > 0
    /\ ticksLeft > 0

RecoverCheckFails(p, o) ==
    /\ check_fails(o)
    /\ MayFail
    /\ checksLeft' = checksLeft - 1
    /\ run_check_pool_health(p, o)

RecoverCheckSucceeds(p, o) ==
    /\ ~check_fails(o)
    /\ UNCHANGED checksLeft
    /\ run_check_pool_health(p, o)

\* a routing request; they keep arriving
RecoverRequest(S) ==
    /\ CanStart
    /\ UNCHANGED callsLeft
    /\ get_pool_for_session(S)

\* a routing request for a session the instance has no binding of
FreshRequest(S) ==
    /\ S \notin DOMAIN session_affinities
    /\ RecoverRequest(S)

\* the time of a recovery timeout passes
RecoverTick == Tick(recovery_timeout)

InitRecover ==
    /\ LBStart
    /\ pools = [p \in RecoverPools |-> PoolEndpoint(1, HEALTHY)]
    /\ circuit_breakers = [p \in RecoverPools |-> CircuitBreaker]
    /\ redis_affinities = EmptyDict
    /\ callsLeft = 1
    /\ maxInFlight = 1
    /\ checksLeft = MaxRecoverFails
    /\ ticksLeft = MaxRecoverTicks
    /\ failuresLeft = 0
    /\ peer = IdlePeer
    /\ CBInit /\ SMIdle /\ ExtIdle

\* a call in flight goes on
RecoverResume(k) ==
    \/ StoreServe(k)
    \/ GetAffinityReply(k)
    \/ SetAffinityStored(k)
    \/ SetAffinityExpireSet(k)
    \/ GetPoolReturn(k)

RecoverSucceeds ==
    \E p \in RecoverPools, o \in RecoverOutcomes : RecoverCheckSucceeds(p, o)

RecoverFresh == \E S \in SessionIds : FreshRequest(S)

NextRecover ==
    \/ \E S \in SessionIds : RecoverRequest(S)
    \/ \E k \in CallIds : StoreServe(k)
    \/ \E k \in CallIds : GetAffinityReply(k)
    \/ \E k \in CallIds : SetAffinityStored(k)
    \/ \E k \in CallIds : SetAffinityExpireSet(k)
    \/ \E k \in CallIds : GetPoolReturn(k)
    \/ \E p \in RecoverPools, o \in RecoverOutcomes : RecoverCheckFails(p, o)
    \/ \E p \in RecoverPools, o \in RecoverOutcomes : RecoverCheckSucceeds(p, o)
    \/ RecoverTick

SpecRecover == InitRecover /\ [][NextRecover]_vars

\* the health check loop runs a round every interval (lines 484 to 494),
\* the clock advances, the store answers the command of a call in flight
\* and the call goes on, and requests for sessions without a binding keep
\* arriving
FairRecover ==
    /\ WF_vars(RecoverTick)
    /\ WF_vars(RecoverSucceeds)
    /\ SF_vars(RecoverFresh)
    /\ \A k \in CallIds : WF_vars(RecoverResume(k))

SpecRecoverFair == SpecRecover /\ FairRecover

(***************************************************************************)
(* Properties of the circuit breaker (SpecCB)                              *)
(***************************************************************************)

\* k record_failure calls in a row from a closed breaker with
\* failure_count 0: closed with failure_count k below the threshold, open
\* at the threshold
C4_Streak ==
    /\ (cbStreak >= 1 /\ cbStreak < failure_threshold)
           => (cb.state = CLOSED /\ cb.failure_count = cbStreak)
    /\ cbStreak = failure_threshold
           => (cb.state = OPEN /\ cb.failure_count = failure_threshold)

\* C4: every record_failure() call adds one to failure_count and records
\* the time of the call; from a closed breaker with failure_count 0, k calls
\* in a row leave it closed for k < failure_threshold and open for
\* k = failure_threshold; one call on a half-open breaker opens it, whatever
\* failure_count is.
C4_RecordFailure ==
    /\ []C4_Streak
    /\ [][cbOp' = "record_failure" =>
              /\ cb'.failure_count = cb.failure_count + 1
              /\ cb'.last_failure_time = cbNow
              /\ cb.state = HALF_OPEN => cb'.state = OPEN]_vars

\* the fifth record_failure in a row has just opened the breaker
C4_Witness ==
    /\ cbOp = "record_failure"
    /\ cbStreak = failure_threshold
    /\ cb.state = OPEN

\* C5: can_execute() returns true and changes nothing on a closed or
\* half-open breaker; on an open one it returns false and changes nothing
\* while now - last_failure_time < recovery_timeout, and returns true and
\* makes the breaker half-open once now - last_failure_time >=
\* recovery_timeout.
C5_CanExecute ==
    [][cbOp' = "can_execute" =>
          /\ cb.state \in {CLOSED, HALF_OPEN} => (cbRet' /\ cb' = cb)
          /\ (cb.state = OPEN /\ cbNow - cb.last_failure_time < recovery_timeout)
                 => (~cbRet' /\ cb' = cb)
          /\ (cb.state = OPEN /\ cbNow - cb.last_failure_time >= recovery_timeout)
                 => (cbRet' /\ cb'.state = HALF_OPEN)]_vars

\* can_execute() has let a call through exactly recovery_timeout after the
\* last failure, and the breaker is half-open
C5_Witness ==
    /\ cbOp = "can_execute"
    /\ cbRet
    /\ cb.state = HALF_OPEN
    /\ cb.success_count = 0
    /\ cbNow - cb.last_failure_time = recovery_timeout

\* in half-open, success_count is the number of record_success calls since
\* the breaker entered half-open, and is below half_open_max_calls
C6_Counted ==
    cb.state = HALF_OPEN =>
        /\ cb.success_count = cbHalfOpenSucc
        /\ cbHalfOpenSucc < half_open_max_calls

\* C6: a half-open breaker becomes closed exactly at the record_success()
\* call that is the half_open_max_calls-th since it last entered half-open
\* (a record_failure() in between opens it, and entering half-open again
\* starts the count at 0); nothing else closes a breaker, and on closing
\* failure_count and success_count are both 0.
C6_HalfOpenCloses ==
    /\ []C6_Counted
    /\ [][/\ (cb.state = HALF_OPEN /\ cb'.state = CLOSED)
             <=> (/\ cb.state = HALF_OPEN
                  /\ cbOp' = "record_success"
                  /\ cbHalfOpenSucc' = half_open_max_calls
                  /\ cbHalfOpenSucc' # cbHalfOpenSucc)
          /\ (cb.state # CLOSED /\ cb'.state = CLOSED)
             => (/\ cb.state = HALF_OPEN
                 /\ cb'.failure_count = 0
                 /\ cb'.success_count = 0)]_vars

\* the third record_success of a half-open episode that began after a
\* failure at or after the first recovery has just closed the breaker
C6_Witness ==
    /\ cbOp = "record_success"
    /\ cb.state = CLOSED
    /\ cbHalfOpenSucc = half_open_max_calls
    /\ cb.failure_count = 0
    /\ cb.last_failure_time >= recovery_timeout

(***************************************************************************)
(* Properties of the load balancer                                         *)
(***************************************************************************)

\* C1: no registered pool ever has current_sessions greater than its
\* max_sessions, whatever the interleaving of get_pool_for_session and
\* release_session calls, those suspended at an await of the store included.
C1_WithinCapacity ==
    \A p \in DOMAIN pools : pools[p].current_sessions <= pools[p].max_sessions

\* C2: get_pool_for_session never returns a pool whose breaker is open and
\* whose recovery timeout has not elapsed since the last failure, be it by
\* fresh selection or by an existing affinity.
C2_OpenBreakerNotRouted ==
    (ret.op = "get" /\ ret.pool \in DOMAIN pools) =>
        ~(/\ circuit_breakers[ret.pool].state = OPEN
          /\ now - circuit_breakers[ret.pool].last_failure_time < recovery_timeout)

\* C3: once a get_pool_for_session(S) has bound S to pool P, every
\* get_pool_for_session(S) called later returns P, as long as P has stayed
\* registered and healthy and the affinity has neither expired nor been
\* released.
C3_Sticky ==
    ret.op = "get" => \A P \in ret.expected : ret.pool = P

\* call k selects a pool in this step (it goes on to _set_session_affinity)
Selected(k) == calls[k].pc # "set_hset" /\ calls'[k].pc = "set_hset"

\* C7: a pool is selected for a session id without usable affinity only if,
\* at that moment, its breaker's can_execute() is true, its status is
\* healthy or degraded and its current_sessions is below max_sessions; the
\* pool a fresh get_pool_for_session returns is the one it selected.
C7_SelectedWasAvailable ==
    [][/\ \A k \in CallIds : Selected(k) =>
             LET P == calls'[k].pool
             IN  /\ P \in DOMAIN pools
                 /\ can_execute(circuit_breakers[P], now).ok
                 /\ pools[P].status \in {HEALTHY, DEGRADED}
                 /\ pools[P].current_sessions < pools[P].max_sessions
       /\ (ret'.op = "get" /\ ret'.fresh) =>
             \E k \in CallIds : /\ calls[k].pc = "get_metrics"
                                 /\ calls'[k].pc = "idle"
                                 /\ calls[k].pool = ret'.pool]_vars

\* a freshly selected pool has been returned and is now filled to
\* max_sessions
C7_Witness ==
    /\ ret.op = "get"
    /\ ret.fresh
    /\ ret.pool \in DOMAIN pools
    /\ pools[ret.pool].current_sessions = pools[ret.pool].max_sessions

\* C8 as stated: a pool is selected only if its queue depth is below 50
C8_BelowCeiling ==
    [][\A k \in CallIds : Selected(k) =>
           pools[calls'[k].pool].queue_depth < queue_depth_ceiling]_vars

\* C8: a pool is selected only if its queue depth is at most 50; a pool
\* whose queue depth is above 50 is never a candidate.
C8_AtMostCeiling ==
    /\ [](\A p \in DOMAIN pools :
             pools[p].queue_depth > queue_depth_ceiling
                => p \notin get_available_pools)
    /\ [][\A k \in CallIds : Selected(k) =>
              pools[calls'[k].pool].queue_depth <= queue_depth_ceiling]_vars

\* a pool whose queue depth is exactly 50 has been selected
C8_Witness ==
    \E k \in CallIds :
        /\ calls[k].pc = "set_hset"
        /\ calls[k].pool \in DOMAIN pools
        /\ pools[calls[k].pool].queue_depth = queue_depth_ceiling

\* C9: when get_pool_for_session returns None (no candidate, no usable
\* affinity) it has created no binding: every binding the local cache or
\* the store then holds was held by the cache or the store when the call
\* started, the store has gained nothing, and every pool's
\* current_sessions is what it was.
C9_NoneLeavesNoTrace ==
    (maxInFlight = 1 /\ ret.op = "get" /\ ret.pool = "None") =>
        /\ \A S \in DOMAIN session_affinities :
              \/ /\ S \in DOMAIN ret.snap.cache
                 /\ ret.snap.cache[S] = session_affinities[S]
              \/ /\ S \in DOMAIN ret.snap.store
                 /\ ret.snap.store[S] = session_affinities[S]
        /\ \A S \in DOMAIN redis_affinities :
              /\ S \in DOMAIN ret.snap.store
              /\ ret.snap.store[S] = redis_affinities[S]
        /\ \A p \in DOMAIN pools :
              pools[p].current_sessions = ret.snap.sessions[p]

\* None has been returned for a new session id because the only pool is
\* filled to max_sessions
C9_Witness ==
    /\ ret.op = "get"
    /\ ret.pool = "None"
    /\ ret.sid \notin DOMAIN session_affinities
    /\ \A p \in DOMAIN pools :
          /\ pools[p].status = HEALTHY
          /\ circuit_breakers[p].state = CLOSED
          /\ pools[p].current_sessions = pools[p].max_sessions

\* current_sessions >= 0 for every pool
C10_NonNegative ==
    \A p \in DOMAIN pools : pools[p].current_sessions >= 0

\* release_session(S, P) lowers P's current_sessions by one, but not
\* below zero
C10_Lowers ==
    \A k \in CallIds :
        (calls[k].pc = "idle" /\ calls'[k].op = "release"
            /\ calls'[k].pool \in DOMAIN pools) =>
        LET P == calls'[k].pool
        IN  pools'[P].current_sessions =
                IF pools[P].current_sessions > 0
                THEN pools[P].current_sessions - 1 ELSE 0

\* C10 as stated: release_session(S, P) lowers P's current_sessions by one
\* but not below zero, current_sessions >= 0 always, and when it completes
\* with no other call in flight (none for S ran meanwhile, none is left) S
\* has no binding in the local cache or in the store.
C10_ReleaseClears ==
    /\ []C10_NonNegative
    /\ [][C10_Lowers]_vars
    /\ []((ret.op = "release" /\ ret.alone /\ \A c \in CallIds : ~InFlight(c)) =>
             /\ ret.sid \notin DOMAIN session_affinities
             /\ ret.sid \notin DOMAIN redis_affinities)

\* C10: release_session(S, P) lowers P's current_sessions by one but not
\* below zero, current_sessions >= 0 always, and when it completes, no
\* other call for S having run meanwhile, S has no binding in the local
\* cache, and none in the store if the store's hdel succeeded.
C10_ReleaseClearsIfStored ==
    /\ []C10_NonNegative
    /\ [][C10_Lowers]_vars
    /\ []((ret.op = "release" /\ ret.alone) =>
             /\ ret.sid \notin DOMAIN session_affinities
             /\ ret.storeOk => ret.sid \notin DOMAIN redis_affinities)

\* a release_session that ran alone and whose hdel succeeded has completed,
\* after a get_pool_for_session had completed too, and its pool has no
\* session
C10_Witness ==
    /\ ret.op = "release"
    /\ ret.alone
    /\ ret.storeOk
    /\ callsLeft <= MaxCalls - 2
    /\ ret.pool \in DOMAIN pools
    /\ pools[ret.pool].current_sessions = 0
    /\ ret.sid \notin DOMAIN redis_affinities

(***************************************************************************)
(* Properties of the affinity cache and of the shared store                *)
(***************************************************************************)

\* C11: once _set_session_affinity(S, P) has been made on this instance
\* and S has not been released since, the binding the instance reads for
\* S is the one to P as long as it has not expired (read after write on
\* the local cache)
C11_ReadAfterWrite ==
    \A S \in SessionIds :
        (last_set[S] # NullAffinity /\ ~is_expired(last_set[S], now))
            => /\ S \in DOMAIN session_affinities
               /\ session_affinities[S] = last_set[S]

\* C12: two instances that share the store resolve a session id to the
\* same binding: a pool this instance returns for S is the pool the store,
\* through which the other instance resolves S, holds for S, and no pool
\* is returned for S from the local cache by a call that starts once the
\* other instance has released S
C12_SameBinding ==
    (ret.op = "get" /\ ret.pool # "None") =>
        /\ ret.sid \in DOMAIN redis_affinities
               => redis_affinities[ret.sid].pool_name = ret.pool
        /\ ~(/\ ret.sid \in peer_released
             /\ ret.sid \in DOMAIN ret.snap.cache
             /\ ~ret.fresh)

(***************************************************************************)
(* Properties of the health checks (SpecHealth)                            *)
(***************************************************************************)

\* what a check that counts as a success, and one that counts as a
\* failure, leave of pool p and its breaker
C13_Succeeded(p) ==
    /\ circuit_breakers[p] = record_success(ret.before)
    /\ pools[p].status = IF ret.check.overloaded THEN DEGRADED ELSE HEALTHY

C13_Failed(p) ==
    /\ circuit_breakers[p] = record_failure(ret.before, now)
    /\ pools[p].status = IF ret.check.kind = "timeout" THEN DEGRADED
                         ELSE UNHEALTHY

\* C13 as stated: a health check is exactly one breaker event, a
\* record_success whenever the endpoint answers 200 (status healthy, or
\* degraded above 90 percent), a record_failure on a non-200, a timeout
\* or a transport error (status unhealthy or degraded)
C13_OneEventBy200 ==
    ret.op = "check" =>
        IF ret.check.kind = "200"
        THEN C13_Succeeded(ret.pool)
        ELSE C13_Failed(ret.pool)

\* C13: a health check is exactly one breaker event: a record_success
\* when the endpoint answers 200 with a body that can be read (status
\* healthy, or degraded above 90 percent), a record_failure otherwise,
\* also for a 200 whose body cannot be read (status degraded on a timeout,
\* unhealthy in every other case)
C13_OneEvent ==
    ret.op = "check" =>
        IF ret.check.kind = "200" /\ ret.check.readable
        THEN C13_Succeeded(ret.pool)
        ELSE C13_Failed(ret.pool)

\* a 200 whose body could not be read has been counted
C13_Witness ==
    /\ ret.op = "check"
    /\ ret.check.kind = "200"
    /\ ~ret.check.readable
    /\ ret.before.failure_count = failure_threshold - 1
    /\ circuit_breakers[ret.pool].state = OPEN

(***************************************************************************)
(* Properties of the session manager (SpecSM)                              *)
(***************************************************************************)

\* C14: with threads calling create_session, get_session,
\* execute_in_session and destroy_session concurrently with the cleanup
\* thread, the registry never holds more than max_sessions sessions
C14_WithinLimit == Cardinality(DOMAIN sessions) <= sm_max_sessions

\* the registry is at the limit, one thread is in create_session with the
\* lock, the other runs code in a session and the cleanup thread goes for
\* the lock
C14_Witness ==
    /\ Cardinality(DOMAIN sessions) = sm_max_sessions
    /\ \E t, u \in Threads : /\ threads[t].pc = "create_check"
                             /\ threads[u].pc = "run"
    /\ sweeper = "lock"

\* the sessions of registry reg that are idle-expired at time t
ExpiredIn(reg, t) == {i \in DOMAIN reg : session_is_expired(reg[i], t)}

\* the sandboxes of the sessions in ids have been destroyed since boxes,
\* and no other sandbox has been created or destroyed, but for a sandbox
\* in which a run ended meanwhile: its timeout may have destroyed it
OnlyDestroyed(boxes, ids) ==
    \A i \in Ids :
        IF sandboxes[i].runs = boxes[i].runs
        THEN /\ sandboxes[i].destroys =
                    boxes[i].destroys + (IF i \in ids /\ boxes[i].created
                                         THEN 1 ELSE 0)
             /\ sandboxes[i].created = (boxes[i].created /\ i \notin ids)
        ELSE /\ sandboxes[i].destroys \in
                    {boxes[i].destroys, boxes[i].destroys + 1}
             /\ sandboxes[i].created => (boxes[i].created /\ i \notin ids)

\* create_session returned having registered a new session with its
\* sandbox, next to the sessions that were registered and not expired
C15_Registered(expired) ==
    /\ smRet.result = "created"
    /\ smRet.id \notin DOMAIN smRet.before
    /\ DOMAIN sessions = (DOMAIN smRet.before \ expired) \cup {smRet.id}
    /\ sandboxes[smRet.id].created
    /\ \A i \in Ids \ {smRet.id} :
           IF sandboxes[i].runs = smRet.boxes[i].runs
           THEN sandboxes[i].created =
                    (smRet.boxes[i].created /\ i \notin expired)
           ELSE sandboxes[i].created =>
                    (smRet.boxes[i].created /\ i \notin expired)

\* C15 as stated: create_session called with the registry at max_sessions
\* destroys every idle-expired session; when the registry is still at
\* max_sessions it fails with the limit error, provisions no sandbox and
\* leaves the registry as it was, and otherwise it provisions a sandbox
\* and registers the new session
C15_AtLimit ==
    (smRet.op = "create"
        /\ Cardinality(DOMAIN smRet.before) >= sm_max_sessions) =>
        LET expired == ExpiredIn(smRet.before, smRet.at)
        IN  IF expired = {}
            THEN /\ smRet.result = "limit_error"
                 /\ sessions = smRet.before
                 /\ OnlyDestroyed(smRet.boxes, {})
            ELSE C15_Registered(expired)

\* C15: create_session called with the registry at max_sessions destroys
\* every idle-expired session; when the registry is still at max_sessions
\* it fails with the limit error, provisions no sandbox and leaves the
\* registry as it was; otherwise it provisions a sandbox and registers the
\* new session, unless creating the sandbox raises: then the exception is
\* raised again, no session is registered and the expired sessions stay
\* destroyed
C15_AtLimitOrProvisionError ==
    (smRet.op = "create"
        /\ Cardinality(DOMAIN smRet.before) >= sm_max_sessions) =>
        LET expired == ExpiredIn(smRet.before, smRet.at)
        IN  IF expired = {}
            THEN /\ smRet.result = "limit_error"
                 /\ sessions = smRet.before
                 /\ OnlyDestroyed(smRet.boxes, {})
            ELSE \/ C15_Registered(expired)
                 \/ /\ smRet.result = "provision_error"
                    /\ DOMAIN sessions = DOMAIN smRet.before \ expired
                    /\ OnlyDestroyed(smRet.boxes, expired)

\* at the limit an expired session was destroyed and creating the sandbox
\* of the new one failed
C15_Witness ==
    /\ smRet.op = "create"
    /\ Cardinality(DOMAIN smRet.before) >= sm_max_sessions
    /\ smRet.result = "provision_error"
    /\ DOMAIN sessions # DOMAIN smRet.before

\* C16: get_session of a registered session that is idle for longer than
\* its ttl returns None, with the sandbox of the session destroyed (by this
\* call, unless a timeout had destroyed it before) and the session removed
\* from the registry; a registered session that is not
\* idle-expired is returned, its last_used set to the time of the call and
\* its use_count one higher
C16_GetSession ==
    (smRet.op = "get" /\ smRet.id \in DOMAIN smRet.before) =>
        LET i == smRet.id
            s == smRet.before[i]
        IN  IF idle_time(s, smRet.at) > s.ttl
            THEN /\ smRet.result = "None"
                 /\ i \notin DOMAIN sessions
                 /\ ~sandboxes[i].created
                 /\ sandboxes[i].destroys =
                        smRet.boxes[i].destroys
                            + (IF smRet.boxes[i].created THEN 1 ELSE 0)
            ELSE /\ smRet.result = "session"
                 /\ i \in DOMAIN sessions
                 /\ sessions[i].last_used = smRet.at
                 /\ sessions[i].use_count = s.use_count + 1
                 /\ sandboxes[i] = smRet.boxes[i]

\* a session idle for one second more than its ttl was looked up
C16_Witness ==
    /\ smRet.op = "get"
    /\ smRet.id \in DOMAIN smRet.before
    /\ idle_time(smRet.before[smRet.id], smRet.at) = default_ttl + 1
    /\ smRet.result = "None"

\* the session smRet is about was missing, inactive or idle-expired when
\* the call was made
C17_NoLiveSession ==
    \/ smRet.id \notin DOMAIN smRet.before
    \/ ~smRet.before[smRet.id].is_active
    \/ session_is_expired(smRet.before[smRet.id], smRet.at)

\* C17: execute_in_session never raises: for a session id that is missing,
\* inactive or idle-expired it returns the error result (status error,
\* exit_code -1) and runs code in no sandbox; for a live session it
\* returns what run_code returned, and the error result when run_code
\* raised
C17_NeverRaises ==
    smRet.op = "execute" =>
        /\ smRet.value.status # "raised"
        /\ IF C17_NoLiveSession
           THEN /\ smRet.result = "no_session"
                /\ smRet.value = ErrorResult
                /\ \A i \in Ids : sandboxes[i].runs = smRet.boxes[i].runs
           ELSE /\ smRet.result = "ran"
                /\ smRet.ran.kind \in {"returns", "raises"}
                /\ smRet.ran.kind = "returns" => smRet.value = smRet.ran.value
                /\ smRet.ran.kind = "raises" => smRet.value = ErrorResult

\* run_code raised because the sandbox of the session, live when it was
\* looked up, had been destroyed by the time the code was to run
C17_Witness ==
    /\ smRet.op = "execute"
    /\ smRet.result = "ran"
    /\ smRet.ran.kind = "raises"
    /\ ~smRet.boxes[smRet.id].created
    /\ smRet.value = ErrorResult

\* C18: of two destroy_session calls for a session id, the first made
\* while the session is registered, one after the other or from two
\* threads, the first to take the lock returns True and the other False;
\* the sandbox of the session is destroyed once and the session is not in
\* the registry afterwards
C18_DestroyedOnce ==
    \A i \in Ids :
        sandboxes[i].destroy_calls >= 1 =>
            /\ sandboxes[i].destroy_trues = 1
            /\ sandboxes[i].destroys = 1
            /\ ~sandboxes[i].created
            /\ i \notin DOMAIN sessions
            /\ (smRet.op = "destroy" /\ smRet.id = i) =>
                   (smRet.result = "True") = (sandboxes[i].destroy_calls = 1)

\* the second destroy_session of a session has returned False
C18_Witness ==
    /\ smRet.op = "destroy"
    /\ smRet.result = "False"
    /\ sandboxes[smRet.id].destroy_calls = 2
    /\ sandboxes[smRet.id].destroy_trues = 1

\* what a sweep removed from the registry was idle-expired when the sweep
\* looked at it, and what it left was not
C19_SweepSafe ==
    smRet.op = "sweep" =>
        \A i \in DOMAIN smRet.before :
            (i \notin DOMAIN sessions)
                = session_is_expired(smRet.before[i], smRet.at)

\* a registered session that is idle-expired leaves the registry, also
\* when no caller looks it up
C19_SweepLive ==
    \A i \in Ids :
        (i \in DOMAIN sessions /\ session_is_expired(sessions[i], clock))
            ~> (i \notin DOMAIN sessions)

\* C19: while the session manager runs with its cleanup thread, every
\* session that becomes idle-expired is eventually destroyed and removed
\* from the registry by the cleanup thread without a caller looking it up,
\* and the cleanup thread never destroys a session that is not
\* idle-expired when it is examined
C19_Sweep == []C19_SweepSafe /\ C19_SweepLive

\* the cleanup thread has just removed an idle-expired session that no
\* caller had looked up since it was created
C19_Witness ==
    /\ smRet.op = "sweep"
    /\ \E i \in DOMAIN smRet.before :
           /\ i \notin DOMAIN sessions
           /\ smRet.before[i].use_count = 0
           /\ sandboxes[i].destroys = 1

\* C20: when stop() returns the registry is empty and the sandbox of
\* every session that was registered has been destroyed, and once stop()
\* has returned the cleanup thread makes no further sweep
C20_Stopped ==
    /\ smRet.op = "stop" =>
           /\ DOMAIN sessions = {}
           /\ \A i \in Ids : ~sandboxes[i].created
    /\ stopper = "returned" => smRet.op # "sweep"

(***************************************************************************)
(* The sandbox                                                             *)
(***************************************************************************)
\* C21: run_code with a language outside the supported set raises the
\* unsupported-language error and has made no call on the container: no
\* upload and no exec, whatever files came with the call
C21_UnsupportedBeforeContainer ==
    (sbRet.op = "run_code" /\ sbRet.had /\ ~supported(sbRet.language)) =>
        /\ sbRet.result = "raised_value"
        /\ runtime.put_calls = sbRet.before.put_calls
        /\ runtime.exec_calls = sbRet.before.exec_calls

\* C22: when run_code returns the timeout result the container is stopped
\* and removed and the handle is cleared, and a run_code after a timeout
\* fails
C22_TimeoutDestroys ==
    /\ (sbRet.op = "run_code" /\ sbRet.result = "timeout") =>
           /\ ~container
           /\ ~runtime.running
           /\ runtime.removed
    /\ (sbRet.op = "run_code" /\ sbRet.before.timeouts > 0) =>
           sbRet.result = "raised_runtime"

RefusedPath(p) ==
    \/ \E i \in 1..Len(SplitPath(p)) : SplitPath(p)[i] = DotDot
    \/ p # <<>> /\ p[1] = "/"
    \/ \E i \in 1..Len(p) : p[i] \in {"NUL", "$", "LF"}

\* C24: write_file and read_file, of the sandbox and of the filesystem
\* manager, report failure for such a path and make no call on the
\* container
C24_RefusedPathsUntouched ==
    (/\ sbRet.op \in {"write_file", "read_file",
                      "fs_write_file", "fs_read_file"}
     /\ RefusedPath(sbRet.path)) =>
        /\ sbRet.result \in {"false", "none", "failure"}
        /\ runtime = sbRet.before

(***************************************************************************)
(* The session persistence manager                                         *)
(***************************************************************************)
\* C25: when create_session(id, ..., ttl=T) returns, its write having
\* succeeded, the store holds the scalar record of the state under an
\* expiry of T; get_session returns the cached state on a manager that
\* caches the session, and on another manager the state of the record in
\* the store, None only when there is no record
C25_CreatedUnderExpiry ==
    /\ (spRet.op = "create" /\ spRet.task.stored) =>
           /\ spRet.task.id \in DOMAIN sp_sessions
           /\ sp_sessions[spRet.task.id] =
                  [rec |-> to_dict(spRet.state), ttl |-> spRet.task.ttl]
    /\ (spRet.op = "get" /\ spRet.from = "cache") =>
           /\ spRet.result = "state"
           /\ spRet.state = active_sessions[spRet.m][spRet.task.id]
    /\ (spRet.op = "get" /\ spRet.from = "store"
            /\ spRet.task.reply.kind = "ok") =>
           IF spRet.task.reply.found
           THEN /\ spRet.result = "state"
                /\ spRet.state = from_dict(spRet.task.reply.rec)
           ELSE spRet.result = "none"

\* C26: when migrate_session(id, new_pod, new_pool) returns a state, the
\* state has pod_name new_pod, pool_name new_pool when one was given and
\* the previous pod as its migration marker, and, its write having
\* succeeded, the record in the store carries the same pod and pool; when
\* it returns None it has changed nothing in the cache and written nothing
C26_MigratedOwnership ==
    /\ (spRet.op = "migrate" /\ spRet.result = "state") =>
           /\ spRet.state.pod_name = spRet.task.new_pod
           /\ spRet.task.new_pool # "" =>
                  spRet.state.pool_name = spRet.task.new_pool
           /\ spRet.state.migrated_from = spRet.task.old_pod
           /\ spRet.task.stored =>
                  /\ spRet.task.id \in DOMAIN sp_sessions
                  /\ sp_sessions[spRet.task.id].rec.pod_name =
                         spRet.state.pod_name
                  /\ sp_sessions[spRet.task.id].rec.pool_name =
                         spRet.state.pool_name
    /\ (spRet.op = "migrate" /\ spRet.result = "none") =>
           /\ active_sessions[spRet.m] = spRet.task.before
           /\ ~spRet.task.wrote

\* C27, as stated: restore_session returns None only for a session absent
\* from the store, and the state it returns has the files the store held
\* for the session
C27_RestoresAllFiles ==
    /\ (spRet.op = "restore" /\ spRet.result = "state") =>
           spRet.state.files = spRet.task.held
    /\ (spRet.op = "restore" /\ spRet.result = "none") =>
           ~spRet.task.present

\* C27: when the store answers the reads of restore_session, the call
\* returns None only for a session absent from the store, and then the
\* cache is as it was; the state it returns has pod_name new_pod, is marked
\* restored, has exactly the files the store held for the session, and is
\* the state the cache of that manager holds, which get_session returns
C27_Restore ==
    /\ (spRet.op = "restore" /\ spRet.result = "state") =>
           /\ spRet.state.pod_name = spRet.task.new_pod
           /\ spRet.state.restored
           /\ spRet.task.stored => spRet.state.files = spRet.task.held
           /\ Cached(spRet.m, spRet.task.id)
           /\ active_sessions[spRet.m][spRet.task.id] = spRet.state
    /\ (spRet.op = "restore" /\ spRet.result = "none") =>
           /\ spRet.task.reply.kind = "ok" => ~spRet.task.present
           /\ active_sessions[spRet.m] = spRet.task.before
    /\ (spRet.op = "get" /\ Cached(spRet.m, spRet.task.id)) =>
           /\ spRet.from = "cache"
           /\ spRet.state = active_sessions[spRet.m][spRet.task.id]

\* restore_session has returned a state with a file the store held
C27_Witness ==
    /\ spRet.op = "restore"
    /\ spRet.result = "state"
    /\ spRet.task.stored
    /\ spRet.state.files # EmptyFiles
    /\ spRet.state.files = StoredFiles(spRet.task.id)

\* the store's record of a session a manager caches is the scalar state
\* the manager holds
InStore(m, id) ==
    /\ id \in DOMAIN sp_sessions
    /\ sp_sessions[id].rec = to_dict(active_sessions[m][id])

\* C28: once a graceful stop() has returned, no store command having
\* failed, the store's record of every session the manager caches equals
\* the scalar state the manager holds
C28_StoppedAndFlushed ==
    \A m \in SPManagers :
        (~sp_running[m] /\ req[m].pc = "idle"
             /\ spLeft.failures = MaxSPFailures) =>
            \A id \in DOMAIN active_sessions[m] : InStore(m, id)

\* C29: with calls made one after the other and no store command failing,
\* add_file that returns True has stored the content, compressed or not, so
\* that it reads back as given; add_file refuses content larger than
\* max_file_size and then caches and writes nothing; delete_file leaves no
\* file in the store; and get_file returns the content of the file the
\* store holds, nothing when it holds none
C29_FileRoundTrip ==
    spLeft.failures = MaxSPFailures =>
        LET id == spRet.task.id
            path == spRet.task.path
        IN  /\ (spRet.op = "add_file" /\ spRet.result = "true") =>
                   /\ path \in DOMAIN StoredFiles(id)
                   /\ decode(StoredFiles(id)[path], TRUE) =
                          [ok |-> TRUE, content |-> spRet.task.given]
            /\ (spRet.op = "add_file"
                    /\ spRet.task.given.size > sp_max_file_size) =>
                   /\ spRet.result = "false"
                   /\ ~spRet.task.wrote
                   /\ active_sessions[spRet.m] = spRet.task.before
            /\ (spRet.op = "delete_file" /\ spRet.result = "true") =>
                   path \notin DOMAIN StoredFiles(id)
            /\ spRet.op = "get_file" =>
                   IF path \in DOMAIN StoredFiles(id)
                   THEN /\ spRet.result = "content"
                        /\ spRet.content = StoredFiles(id)[path].body
                   ELSE spRet.result = "none"

(***************************************************************************)
(* Pools and their circuit breakers                                        *)
(***************************************************************************)
\* C30: in every state, those at the awaits of register_pool,
\* unregister_pool and _load_pools included, the names of the registered
\* pools are the names that hold a circuit breaker
C30_OneBreakerPerPool == DOMAIN pools = DOMAIN circuit_breakers

\* one coroutine waits in unregister_pool and the other in _load_pools
\* while a pool is registered
C30_Witness ==
    /\ \E k \in RegTasks : pool_ops[k].op = "unregister" /\ pool_ops[k].pc = "wait"
    /\ \E k \in RegTasks : pool_ops[k].op = "load" /\ pool_ops[k].pc = "wait"
    /\ DOMAIN pools # {}

(***************************************************************************)
(* Properties of fresh selection (SpecSelect)                              *)
(***************************************************************************)
\* the pools of a list
Listed(s) == {s[i] : i \in 1..Len(s)}

\* C31: a fresh selection raises no division by zero and its candidates
\* include no pool with max_sessions = 0; over a non-empty candidate list
\* it returns a candidate that fewer than three candidates outscore, and
\* when the scores of the three best sum to zero each of the three can be
\* the one returned.
C31_FreshSelection ==
    ret.op = "select" =>
        /\ ~ret.raised
        /\ \A p \in Listed(ret.candidates) : pools[p].max_sessions # 0
        /\ ret.candidates # <<>> =>
              /\ ret.pool \in Listed(ret.candidates)
              /\ Cardinality({i \in 1..Len(ret.candidates) :
                      score(pools[ret.candidates[i]]) > score(pools[ret.pool])})
                    < 3
              /\ LET top == top_pools(scores_sorted(pools, ret.candidates))
                 IN  SumScores(pools, top) = 0 => ret.may = Listed(top)

\* a selection among four candidates, one of them outscored by the three
\* others, that returned a pool which is not the best scored
C31_Witness ==
    /\ ret.op = "select"
    /\ Len(ret.candidates) = 4
    /\ \E p \in Listed(ret.candidates) :
          \A q \in Listed(ret.candidates) \ {p} :
             score(pools[q]) > score(pools[p])
    /\ \E q \in Listed(ret.candidates) :
          score(pools[q]) > score(pools[ret.pool])

(***************************************************************************)
(* Properties of the session counts (SpecCount)                            *)
(***************************************************************************)
\* C32: between calls, current_sessions of each pool is the number of
\* session ids that were assigned to it by get_pool_for_session and have
\* not been released since.
C32_CountsSessions ==
    (\A c \in CallIds : ~InFlight(c)) =>
        \A p \in DOMAIN pools :
            pools[p].current_sessions =
                Cardinality({S \in SessionIds : last_set[S].pool_name = p})

(***************************************************************************)
(* Properties of the sessions' sandboxes (SpecSM)                          *)
(***************************************************************************)
\* C33: a session that get_session would return (registered, active, not
\* idle-expired) has a sandbox whose container handle is set.
C33_ReturnedHasSandbox ==
    \A i \in Ids :
        get_session(sessions, sandboxes, i, clock).found =>
            sandboxes[i].created

\* C34: while a thread is running code in the sandbox of a session, inside
\* execute_in_session, the sandbox has its container: no destroy_session,
\* sweep or stop() of another thread has destroyed it.
C34_NotDestroyedWhileRunning ==
    \A t \in Threads :
        threads[t].pc = "running" => sandboxes[threads[t].id].created

\* C35: as long as no further call has been made since delete_session(id)
\* returned True, the session is neither in the cache of the manager nor
\* in the store: no snapshot flush writes its record back
C35_DeletedStaysAbsent ==
    \A id \in DOMAIN sp_deleted :
        spLeft.calls = sp_deleted[id] =>
            /\ id \notin DOMAIN sp_sessions
            /\ \A mgr \in SPManagers : ~Cached(mgr, id)

\* C36: when no call is in flight and S has not been assigned since its
\* last release_session completed, the local cache holds no binding for S:
\* no lookup that ran beside the release has left the released one behind
C36_ReleasedNotCached ==
    (\A c \in CallIds : ~InFlight(c)) =>
        \A S \in SessionIds :
            last_set[S] = NullAffinity => S \notin DOMAIN session_affinities

\* C37: a record of the store that expires still expires after every step
\* that leaves it in the store: no save by migrate_session or by a flush
\* turns it into a record without expiry
C37_KeepsExpiry ==
    [][\A id \in DOMAIN sp_sessions \cap DOMAIN sp_sessions' :
           sp_sessions[id].ttl > 0 => sp_sessions'[id].ttl > 0]_vars

\* the only changes of state of a breaker
C38_Allowed ==
    {<<CLOSED, OPEN>>, <<OPEN, HALF_OPEN>>, <<HALF_OPEN, OPEN>>,
     <<HALF_OPEN, CLOSED>>}

\* a closed breaker has fewer than failure_threshold failures counted and
\* no success counted
C38_ClosedCounts ==
    cb.state = CLOSED =>
        /\ cb.failure_count < failure_threshold
        /\ cb.success_count = 0

\* C38: whatever record_success, record_failure and can_execute calls are
\* made, the state of the breaker changes only from closed to open, from
\* open to half-open, from half-open to open and from half-open to closed;
\* record_success on a closed or open breaker lowers failure_count by one,
\* not below zero, and changes nothing else; and a closed breaker has
\* failure_count < failure_threshold and success_count = 0.
C38_Transitions ==
    /\ []C38_ClosedCounts
    /\ [][/\ cb'.state # cb.state => <<cb.state, cb'.state>> \in C38_Allowed
          /\ (cbOp' = "record_success" /\ cb.state \in {CLOSED, OPEN}) =>
                 cb' = [cb EXCEPT !.failure_count =
                                      IF @ > 0 THEN @ - 1 ELSE 0]]_vars

\* record_success on an open breaker has just lowered failure_count below
\* the threshold, and the breaker is still open
C38_Witness ==
    /\ cbOp = "record_success"
    /\ cb.state = OPEN
    /\ cb.failure_count = failure_threshold - 2

\* the breaker of pool p is open and no health check fails from now on
C39_Opened(p) == circuit_breakers[p].state = OPEN /\ ~MayFail

\* the pool has a free place and the last queue depth it reported is not
\* over the ceiling
C39_HasRoom(p) ==
    /\ pools[p].current_sessions < pools[p].max_sessions
    /\ pools[p].queue_depth <= queue_depth_ceiling

\* C39 as stated: a pool whose breaker has opened and whose health checks
\* succeed from then on is eventually eligible for fresh selection again,
\* and its breaker eventually closed
C39_Recovers ==
    \A p \in RecoverPools :
        /\ C39_Opened(p) ~> pool_is_available(pools[p], circuit_breakers[p], now)
        /\ C39_Opened(p) ~> (circuit_breakers[p].state = CLOSED)

\* C39: a pool whose breaker has opened and whose health checks succeed
\* from then on eventually passes the breaker again, and its breaker is
\* eventually closed with the pool eligible for fresh selection if it has
\* a free place and a reported queue depth within the ceiling
C39_BreakerRecovers ==
    \A p \in RecoverPools :
        /\ C39_Opened(p) ~> can_execute(circuit_breakers[p], now).ok
        /\ C39_Opened(p) ~>
               /\ circuit_breakers[p].state = CLOSED
               /\ C39_HasRoom(p) =>
                      pool_is_available(pools[p], circuit_breakers[p], now)

\* a successful health check has just closed the half-open breaker of pool
\* A, which had opened, and the pool is eligible again
C39_Witness ==
    /\ ret.op = "check"
    /\ ret.before.state = HALF_OPEN
    /\ circuit_breakers["A"].state = CLOSED
    /\ checksLeft <= MaxRecoverFails - failure_threshold
    /\ pool_is_available(pools["A"], circuit_breakers["A"], now)

\* C40: run_code with a supported language and a file whose upload was
\* rejected returns the failure result and has not run the command
C40_RunsOnlyUploaded ==
    (/\ sbRet.op = "run_code"
     /\ sbRet.had
     /\ supported(sbRet.language)
     /\ sbRet.path # <<>>
     /\ ~sandbox_path(sbRet.path).ok) =>
        /\ sbRet.result = "failed"
        /\ runtime.exec_calls = sbRet.before.exec_calls

====
